---- MODULE Spec2Model ----
(***************************************************************************)
(* Session orchestration pipeline of the ConCall local application:        *)
(*   worker-asr          : SessionBuffer, asr_loop, session_monitor        *)
(*   worker-intelligence : translation_loop, summary_monitor,              *)
(*                         generate_summary, split_transcript_into_chunks  *)
(*   app-gateway         : the control and audio messages it sends          *)
(*                                                                         *)
(* Audio is represented by its number of samples; a time in seconds is     *)
(* represented by the number of samples it spans (seconds * 16000), so     *)
(* len(audio) / TARGET_SAMPLE_RATE is the sample count itself.             *)
(***************************************************************************)
EXTENDS Integers, Sequences, FiniteSets, TLC

\* ------------------------------------------------------------------------
\* Bounds of the model
\* ------------------------------------------------------------------------
MaxPush == 2
MaxStatus == 1
MaxTextAtoms == 5
MaxChunkSize == 4
MaxTranscriptions == 6
MaxEnd == 2
MaxPolls == 2

MaxIntTranscriptions == 2
MaxDiaPush == 1
MaxTicks == 2
MaxConnects == 2
MaxStarts == 2
MaxEvents == 2
MaxLangSets == 1
MaxZhTranscriptions == 2
MaxShareTranscriptions == 2
MaxLivePush == 2

MaxCrashTranscriptions == 2

MaxWinTranscriptions == 3

MaxDirTranscriptions == 2

MaxTokens == 3

MaxPairPush == 2

MaxPairTicks == 1

Sessions == {"S1", "S2"}

\* ------------------------------------------------------------------------
\* Program constants
\* ------------------------------------------------------------------------
TARGET_SAMPLE_RATE == 16000
ASR_BUFFER_SECONDS == 5
ASR_BUFFER_SAMPLES == ASR_BUFFER_SECONDS * TARGET_SAMPLE_RATE
SEGMENT_MERGE_WINDOW == 5
REVISION_MIN_CHARS == 30
REVISION_MAX_CHARS == 200

FLUSH_CHARS == 20
CHUNK_SIZE == 5000
CHUNK_THRESHOLD == 10000

\* time.time(): some time after the epoch; only that it is not 0 is used.
Now == 1700000000

\* Sizes (in samples) of the audio chunks a client sends: 2.5 s and 5 s.
ChunkSizes == {40000, 80000}

\* Chunk sizes used with the diarization loop: 0.5 s and 5 s.
DiaChunkSizes == {8000, 80000}

\* ------------------------------------------------------------------------
\* Python dict / defaultdict helpers: a dict is a function whose domain is
\* the set of keys present.
\* ------------------------------------------------------------------------
EmptyDict == <<>>

Get(d, k, default) == IF k \in DOMAIN d THEN d[k] ELSE default

Put(d, k, v) == [x \in (DOMAIN d) \cup {k} |-> IF x = k THEN v ELSE d[x]]

Pop(d, k) == [x \in (DOMAIN d) \ {k} |-> d[x]]

RECURSIVE SumSeq(_)
SumSeq(q) == IF q = <<>> THEN 0 ELSE Head(q) + SumSeq(Tail(q))

\* ------------------------------------------------------------------------
\* Text: a string is a sequence of atoms; an atom [c, n] stands for n
\* copies of the character c, and the newline is the atom ["\n", 1].
\* ------------------------------------------------------------------------
NL == [c |-> "\n", n |-> 1]

Run(c, n) == [c |-> c, n |-> n]

\* len(text)
RECURSIVE TextLen(_)
TextLen(text) ==
    IF text = <<>> THEN 0 ELSE Head(text).n + TextLen(Tail(text))

\* text.split("\n"): the list of lines, in order; always at least one line.
RECURSIVE SplitLines(_)
SplitLines(text) ==
    IF text = <<>> THEN << <<>> >>
    ELSE LET rest == SplitLines(Tail(text))
         IN IF Head(text) = NL
            THEN << <<>> >> \o rest
            ELSE << <<Head(text)>> \o Head(rest) >> \o Tail(rest)

\* sep.join(parts) for a one-character separator
RECURSIVE Join(_, _)
Join(sep, parts) ==
    IF parts = <<>> THEN <<>>
    ELSE IF Len(parts) = 1 THEN Head(parts)
    ELSE Head(parts) \o <<sep>> \o Join(sep, Tail(parts))

\* "\n".join(parts)
JoinLines(parts) == Join(NL, parts)

SPACE == [c |-> " ", n |-> 1]

\* " ".join(parts)
JoinSpaces(parts) == Join(SPACE, parts)

\* not text.strip(): only whitespace, or nothing at all
IsBlank(text) == \A i \in 1..Len(text) : text[i].c \in {" ", "\n"}

\* ------------------------------------------------------------------------
\* State
\* ------------------------------------------------------------------------
VARIABLES
    \* worker-asr: SessionBuffer fields
    asr_buffers, diarization_buffers, asr_sample_counts,
    diarization_sample_counts, segment_offsets, diarization_offsets,
    \* Redis: audio queue, status channel as seen by session_monitor,
    \* transcription channel (events in publication order), transcript log
    audio_queue, asr_status_inbox, published, transcript_log,
    \* asr_loop position and the result_data it is about to publish
    asr_pc, result_data,
    \* history: per session, samples drained since the last clear, number of
    \* clears processed, and the last drain performed
    drainedSum, epoch, lastDrain,
    \* audio frames and status messages the gateway is still to send
    pushesLeft, statusLeft,
    \* diarization_loop: its position, the rest of its session_ids snapshot,
    \* the drained audio in hand, the events published on the diarization
    \* channel per session, and the ticks still to come
    dia_pc, dia_todo, dia_cur, dia_events, ticksLeft,
    \* history: one entry per get_diarization_audio call
    diaLog,
    \* split_transcript_into_chunks applied to one input: the arguments, the
    \* returned list and whether the call has returned
    split_text, split_size, split_chunks, split_pc,
    \* worker-intelligence, shared by both loops: the global llm_client
    \* (FALSE is None) and the status of the vLLM container
    llm_client, vllm_status,
    \* Redis key session:lang:<id>
    session_lang,
    \* translation_loop: _session_segments, _last_revision_hash, the
    \* transcription messages not yet received, the position of the loop,
    \* the message being handled, and per session the count of its handled
    \* messages, which stands for int(time.time() * 1000) in its seg_ids
    session_segments, last_revision_hash, tr_inbox, tr_pc, tr_cur, tr_clock,
    \* history: per session, the revisions decided (should_revise) with the
    \* hash of the merged text and what became of each: "published",
    \* "failed" (the translation raised) or "suppressed" (same hash as the
    \* stored one); the number of drafts published; the messages sent
    revLog, drafts, transcriptionsLeft,
    \* history: the session and the outcome of the last message received by
    \* translation_loop
    tr_last,
    \* history: the seg_ids of the drafts published
    draftIds,
    \* summary_monitor: the status messages not yet received, the position
    \* inside summary_monitor / generate_summary, the locals and the history
    \* of the current (or last) summarization job
    sum_inbox, sum_pc, job,
    \* history: status messages sent; per session, whether an end or
    \* disconnect signal was received by worker-intelligence after the
    \* session's last translated segment
    endSent, endProcessed,
    \* app-gateway: ConnectionManager.active_connections; per websocket the
    \* position of its websocket_endpoint coroutine, its session_id and the
    \* language of the "start" control in hand
    active_connections, ws_pc, ws_sid, ws_lang,
    \* redis_subscriber: the messages not yet received, its position, the
    \* delivery in hand, and the history of the last event it routed
    router_inbox, router_pc, router_cur, last_route,
    \* the Docker control tasks created by "start" controls
    gw_tasks,
    \* connections, "start" controls and worker events still to come
    connectsLeft, startsLeft, eventsLeft

diaVars == <<dia_pc, dia_todo, dia_cur, dia_events, ticksLeft, diaLog>>

asrVars == <<asr_buffers, diarization_buffers, asr_sample_counts,
             diarization_sample_counts, segment_offsets, diarization_offsets,
             audio_queue, asr_status_inbox, published, transcript_log,
             asr_pc, result_data, drainedSum, epoch, lastDrain,
             pushesLeft, statusLeft, diaVars>>

splitVars == <<split_text, split_size, split_chunks, split_pc>>

llmVars == <<llm_client, vllm_status>>

trVars == <<session_lang, session_segments, last_revision_hash, tr_inbox,
            tr_pc, tr_cur, tr_clock, revLog, drafts, transcriptionsLeft,
            tr_last, draftIds>>

sumVars == <<sum_inbox, sum_pc, job, endSent>>

gwVars == <<active_connections, ws_pc, ws_sid, ws_lang, router_inbox,
            router_pc, router_cur, last_route, gw_tasks, connectsLeft,
            startsLeft, eventsLeft>>

vars == <<asrVars, splitVars, llmVars, trVars, sumVars, endProcessed, gwVars>>

\* What an action of one component leaves alone in the others.
AsrFrame ==
    UNCHANGED <<diaVars, splitVars, llmVars, trVars, sumVars, endProcessed,
                gwVars>>

DiaFrame ==
    UNCHANGED <<splitVars, llmVars, trVars, sumVars, endProcessed, gwVars>>

SplitFrame ==
    UNCHANGED <<asrVars, llmVars, trVars, sumVars, endProcessed, gwVars>>

TrFrame == UNCHANGED <<asrVars, splitVars, sumVars, gwVars>>

SumFrame == UNCHANGED <<asrVars, splitVars, trVars, gwVars>>

\* The gateway shares the Redis key session:lang:<id> and the vLLM
\* container with worker-intelligence.
GwFrame ==
    UNCHANGED <<asr_buffers, diarization_buffers, asr_sample_counts,
                diarization_sample_counts, segment_offsets,
                diarization_offsets, audio_queue, published, transcript_log,
                asr_pc, result_data, drainedSum, epoch, lastDrain, pushesLeft,
                statusLeft, diaVars, splitVars, sum_pc, job, endSent,
                endProcessed, llm_client, session_segments,
                last_revision_hash, tr_inbox, tr_pc, tr_cur, tr_clock, revLog,
                drafts, transcriptionsLeft, tr_last, draftIds>>

\* A gateway step that publishes nothing on the status channel.
NoStatus == UNCHANGED <<asr_status_inbox, sum_inbox>>

\* ------------------------------------------------------------------------
\* worker-asr: SessionBuffer
\* ------------------------------------------------------------------------
NoDiaAudio == [session_id |-> "none", audio |-> 0, time_offset |-> 0,
               entry |-> 0, speakers |-> <<>>]

NoDrain == [session_id |-> "none", len |-> 0, time_offset |-> 0, before |-> 0,
            has_speech |-> FALSE, transcribed |-> FALSE, failed |-> FALSE,
            prev_failed |-> FALSE]

AsrBuffersEmpty ==
    /\ asr_buffers = EmptyDict
    /\ diarization_buffers = EmptyDict
    /\ asr_sample_counts = EmptyDict
    /\ diarization_sample_counts = EmptyDict
    /\ segment_offsets = EmptyDict
    /\ diarization_offsets = EmptyDict
    /\ audio_queue = <<>>
    /\ asr_status_inbox = <<>>
    /\ published = [s \in Sessions |-> <<>>]
    /\ asr_pc = "brpop"
    /\ result_data = [session_id |-> "none"]
    /\ drainedSum = [s \in Sessions |-> 0]
    /\ epoch = [s \in Sessions |-> 0]
    /\ lastDrain = NoDrain
    /\ dia_pc = "sleep"
    /\ dia_todo = <<>>
    /\ dia_cur = NoDiaAudio
    /\ dia_events = [s \in Sessions |-> <<>>]
    /\ diaLog = <<>>

\* worker-asr with nothing left to come from the gateway; the transcript
\* log is left open.
AsrIdleButLog ==
    /\ AsrBuffersEmpty
    /\ pushesLeft = 0
    /\ statusLeft = 0
    /\ ticksLeft = 0

\* worker-asr after construction, with the audio frames and status
\* messages the gateway is still to send.
InitAsrWith(frames, statuses, ticks) ==
    /\ AsrBuffersEmpty
    /\ transcript_log = [s \in Sessions |-> <<>>]
    /\ pushesLeft = frames
    /\ statusLeft = statuses
    /\ ticksLeft = ticks

\* The diarization pipeline is not loaded: diarization_loop returns at once.
InitAsr == InitAsrWith(MaxPush, MaxStatus, 0)

\* SessionBuffer.add_audio: the four fields after appending `audio`.
AddAudio(bufs, counts, dbufs, dcounts, sid, audio) ==
    [asr_buffers |-> Put(bufs, sid, Append(Get(bufs, sid, <<>>), audio)),
     asr_sample_counts |-> Put(counts, sid, Get(counts, sid, 0) + audio),
     diarization_buffers |-> Put(dbufs, sid, Append(Get(dbufs, sid, <<>>), audio)),
     diarization_sample_counts |-> Put(dcounts, sid, Get(dcounts, sid, 0) + audio)]

IsAsrReady_OnlyAboveThreshold(counts, sid) ==
    Get(counts, sid, 0) > ASR_BUFFER_SAMPLES

\* SessionBuffer.is_asr_ready (the defaultdict read creates the key; the
\* key exists already whenever asr_loop calls this, right after add_audio).
IsAsrReady(counts, sid) == Get(counts, sid, 0) >= ASR_BUFFER_SAMPLES

GetAsrAudio_FixedAdvance(bufs, counts, offs, sid) ==
    LET audio == SumSeq(Get(bufs, sid, <<>>))
    IN [audio |-> audio,
        asr_buffers |-> Put(bufs, sid, <<>>),
        asr_sample_counts |-> Put(counts, sid, 0),
        segment_offsets |-> Put(offs, sid, Get(offs, sid, 0) + ASR_BUFFER_SAMPLES)]

\* SessionBuffer.get_asr_audio: concatenated audio and the fields after it.
GetAsrAudio(bufs, counts, offs, sid) ==
    LET audio == SumSeq(Get(bufs, sid, <<>>))
    IN [audio |-> audio,
        asr_buffers |-> Put(bufs, sid, <<>>),
        asr_sample_counts |-> Put(counts, sid, 0),
        segment_offsets |-> Put(offs, sid, Get(offs, sid, 0) + audio)]

\* SessionBuffer.get_offset
GetOffset(offs, sid) == Get(offs, sid, 0)

\* ModelManager.transcribe: the engine's answer for a buffer of `audio`
\* samples: no segment (nothing but silence inside), or an ordered
\* list of segments with times relative to the buffer.
TranscribeResults(audio) ==
    LET first == [start |-> 0, end |-> audio \div 2,
                  text |-> <<Run("a", 19)>>]
        second == [start |-> audio \div 2, end |-> audio,
                   text |-> <<Run("b", 14), Run(".", 1)>>]
        empty == [start |-> 0, end |-> audio, text |-> <<>>]
    IN {<<>>, <<first, second>>, <<empty>>}

Transcribe_FailureKeepsSegments(audio) ==
    {[failed |-> failed, segments |-> segments] :
        failed \in BOOLEAN, segments \in TranscribeResults(audio)}

\* ModelManager.transcribe: the list it returns and whether the engine
\* failed (no model loaded, or an exception of the call or of the iteration
\* over its segments, caught and logged): a failure returns [].
Transcribe(audio) ==
    {[failed |-> TRUE, segments |-> <<>>]}
    \cup {[failed |-> FALSE, segments |-> segments] :
             segments \in TranscribeResults(audio)}

AfterSpeechGate_GateIgnored(has_speech, audio) ==
    {[transcribed |-> TRUE, failed |-> t.failed, segments |-> t.segments] :
        t \in Transcribe(audio)}

\* asr_loop: "if not has_speech: continue", else models.transcribe: whether
\* the engine is called and the segments the cycle goes on with.
AfterSpeechGate(has_speech, audio) ==
    IF ~has_speech
    THEN {[transcribed |-> FALSE, failed |-> FALSE, segments |-> <<>>]}
    ELSE {[transcribed |-> TRUE, failed |-> t.failed, segments |-> t.segments] :
            t \in Transcribe(audio)}

ShiftSegments_StartNotShifted(segments, time_offset) ==
    [i \in 1..Len(segments) |->
        [start |-> segments[i].start,
         end |-> segments[i].end + time_offset,
         text |-> segments[i].text]]

\* asr_loop, "for seg in segments": shift by the time offset.
ShiftSegments(segments, time_offset) ==
    [i \in 1..Len(segments) |->
        [start |-> segments[i].start + time_offset,
         end |-> segments[i].end + time_offset,
         text |-> segments[i].text]]

\* asr_loop: full_text = " ".join(full_text_parts)
FullText(segments) ==
    JoinSpaces([i \in 1..Len(segments) |-> segments[i].text])

\* app-gateway websocket_endpoint, binary frame: LPUSH to the audio queue.
GatewayPushAudio(sid, audio) ==
    /\ pushesLeft > 0
    /\ AsrFrame
    /\ pushesLeft' = pushesLeft - 1
    /\ audio_queue' = Append(audio_queue, [session_id |-> sid, audio |-> audio])
    /\ UNCHANGED <<asr_buffers, diarization_buffers, asr_sample_counts,
                   diarization_sample_counts, segment_offsets,
                   diarization_offsets, asr_status_inbox, published,
                   transcript_log, asr_pc, result_data, drainedSum, epoch,
                   lastDrain, statusLeft>>

\* app-gateway websocket_endpoint, "stop" action and the finally block:
\* PUBLISH session_ended / session_disconnected on the status channel.
GatewayStatus(sid, status) ==
    /\ statusLeft > 0
    /\ AsrFrame
    /\ statusLeft' = statusLeft - 1
    /\ asr_status_inbox' = Append(asr_status_inbox,
                                  [session_id |-> sid, status |-> status])
    /\ UNCHANGED <<asr_buffers, diarization_buffers, asr_sample_counts,
                   diarization_sample_counts, segment_offsets,
                   diarization_offsets, audio_queue, published,
                   transcript_log, asr_pc, result_data, drainedSum, epoch,
                   lastDrain, pushesLeft>>

\* asr_loop: one iteration from BRPOP up to the next suspension point
\* (the next BRPOP, or the PUBLISH of the result).
AsrCycle ==
    /\ asr_pc = "brpop"
    /\ AsrFrame
    /\ audio_queue /= <<>>
    /\ LET data == Head(audio_queue)
           sid == data.session_id
           added == AddAudio(asr_buffers, asr_sample_counts,
                             diarization_buffers, diarization_sample_counts,
                             sid, data.audio)
       IN /\ audio_queue' = Tail(audio_queue)
          /\ diarization_buffers' = added.diarization_buffers
          /\ diarization_sample_counts' = added.diarization_sample_counts
          /\ IF ~IsAsrReady(added.asr_sample_counts, sid)
             THEN /\ asr_buffers' = added.asr_buffers
                  /\ asr_sample_counts' = added.asr_sample_counts
                  /\ UNCHANGED <<segment_offsets, asr_pc, result_data,
                                 drainedSum, lastDrain>>
             ELSE LET got == GetAsrAudio(added.asr_buffers,
                                         added.asr_sample_counts,
                                         segment_offsets, sid)
                      time_offset == GetOffset(got.segment_offsets, sid)
                                        - got.audio
                  IN /\ asr_buffers' = got.asr_buffers
                     /\ asr_sample_counts' = got.asr_sample_counts
                     /\ segment_offsets' = got.segment_offsets
                     /\ drainedSum' = [drainedSum EXCEPT ![sid] = @ + got.audio]
                     /\ \E has_speech \in BOOLEAN :
                        \E gate \in AfterSpeechGate(has_speech, got.audio) :
                          /\ lastDrain' = [session_id |-> sid, len |-> got.audio,
                                           time_offset |-> time_offset,
                                           before |-> drainedSum[sid],
                                           has_speech |-> has_speech,
                                           transcribed |-> gate.transcribed,
                                           failed |-> gate.failed,
                                           prev_failed |->
                                               /\ lastDrain.session_id = sid
                                               /\ lastDrain.failed]
                          /\ IF gate.segments = <<>>
                             THEN UNCHANGED <<asr_pc, result_data>>
                             ELSE /\ asr_pc' = "publish"
                                  /\ result_data' =
                                       [session_id |-> sid,
                                        text |-> FullText(gate.segments),
                                        segments |-> ShiftSegments(gate.segments,
                                                                   time_offset),
                                        timestamp |-> Now,
                                        epoch |-> epoch[sid]]
    /\ UNCHANGED <<diarization_offsets, asr_status_inbox, published,
                   transcript_log, epoch, pushesLeft, statusLeft>>

\* asr_loop: await redis_conn.publish(CHANNEL_TRANSCRIPTIONS, ...)
AsrPublish ==
    /\ asr_pc = "publish"
    /\ AsrFrame
    /\ published' = [published EXCEPT ![result_data.session_id] =
                        Append(@, result_data)]
    /\ asr_pc' = "rpush"
    /\ UNCHANGED <<asr_buffers, diarization_buffers, asr_sample_counts,
                   diarization_sample_counts, segment_offsets,
                   diarization_offsets, audio_queue, asr_status_inbox,
                   transcript_log, result_data, drainedSum, epoch, lastDrain,
                   pushesLeft, statusLeft>>

\* asr_loop: await redis_conn.rpush(SESSION_TRANSCRIPT_PREFIX + sid, ...)
AsrRpush ==
    /\ asr_pc = "rpush"
    /\ AsrFrame
    /\ transcript_log' = [transcript_log EXCEPT ![result_data.session_id] =
                            Append(@, result_data)]
    /\ asr_pc' = "brpop"
    /\ result_data' = [session_id |-> "none"]
    /\ UNCHANGED <<asr_buffers, diarization_buffers, asr_sample_counts,
                   diarization_sample_counts, segment_offsets,
                   diarization_offsets, audio_queue, asr_status_inbox,
                   published, drainedSum, epoch, lastDrain, pushesLeft,
                   statusLeft>>

\* asr_loop: the publish raises (the connection to Redis is lost); the
\* handler "except Exception" logs it, sleeps one second and the loop goes
\* back to BRPOP. Nothing was published and nothing is logged.
AsrPublishRaises ==
    /\ asr_pc = "publish"
    /\ AsrFrame
    /\ asr_pc' = "brpop"
    /\ result_data' = [session_id |-> "none"]
    /\ UNCHANGED <<asr_buffers, diarization_buffers, asr_sample_counts,
                   diarization_sample_counts, segment_offsets,
                   diarization_offsets, audio_queue, asr_status_inbox,
                   published, transcript_log, drainedSum, epoch, lastDrain,
                   pushesLeft, statusLeft>>

\* asr_loop: the rpush raises after the publish went through (the
\* connection is lost, or Redis refuses the write); the same handler takes
\* the loop back to BRPOP.
AsrRpushRaises ==
    /\ asr_pc = "rpush"
    /\ AsrFrame
    /\ asr_pc' = "brpop"
    /\ result_data' = [session_id |-> "none"]
    /\ UNCHANGED <<asr_buffers, diarization_buffers, asr_sample_counts,
                   diarization_sample_counts, segment_offsets,
                   diarization_offsets, audio_queue, asr_status_inbox,
                   published, transcript_log, drainedSum, epoch, lastDrain,
                   pushesLeft, statusLeft>>

\* SessionBuffer.clear_session
ClearSession(d, sid) == Pop(d, sid)

\* session_monitor: one status message.
SessionMonitor ==
    /\ asr_status_inbox /= <<>>
    /\ AsrFrame
    /\ LET data == Head(asr_status_inbox)
           sid == data.session_id
       IN /\ asr_status_inbox' = Tail(asr_status_inbox)
          /\ IF data.status \in {"session_ended", "session_disconnected"}
             THEN /\ asr_buffers' = ClearSession(asr_buffers, sid)
                  /\ diarization_buffers' = ClearSession(diarization_buffers, sid)
                  /\ asr_sample_counts' = ClearSession(asr_sample_counts, sid)
                  /\ diarization_sample_counts' =
                        ClearSession(diarization_sample_counts, sid)
                  /\ segment_offsets' = ClearSession(segment_offsets, sid)
                  /\ diarization_offsets' = ClearSession(diarization_offsets, sid)
                  /\ drainedSum' = [s \in DOMAIN drainedSum |->
                                       IF s = sid THEN 0 ELSE drainedSum[s]]
                  /\ epoch' = [s \in DOMAIN epoch |->
                                  IF s = sid THEN epoch[s] + 1 ELSE epoch[s]]
             ELSE UNCHANGED <<asr_buffers, diarization_buffers,
                              asr_sample_counts, diarization_sample_counts,
                              segment_offsets, diarization_offsets,
                              drainedSum, epoch>>
    /\ UNCHANGED <<audio_queue, published, transcript_log, asr_pc,
                   result_data, lastDrain, pushesLeft, statusLeft>>

AsrIdle == InitAsrWith(0, 0, 0)

NextAsr ==
    \/ \E sid \in Sessions, audio \in ChunkSizes : GatewayPushAudio(sid, audio)
    \/ \E sid \in Sessions,
          status \in {"session_ended", "session_disconnected"} :
            GatewayStatus(sid, status)
    \/ AsrCycle
    \/ AsrPublish
    \/ AsrRpush
    \/ SessionMonitor

\* ------------------------------------------------------------------------
\* worker-asr: diarization_loop
\* ------------------------------------------------------------------------

GetDiarizationAudio_SharedOffset(dbufs, dcounts, doffs, sid) ==
    IF Get(dbufs, sid, <<>>) = <<>>
    THEN [is_none |-> TRUE, audio |-> 0, offset |-> 0,
          diarization_buffers |-> Put(dbufs, sid, <<>>),
          diarization_sample_counts |-> dcounts,
          diarization_offsets |-> doffs]
    ELSE LET audio == SumSeq(dbufs[sid])
         IN [is_none |-> FALSE, audio |-> audio,
             offset |-> Get(doffs, sid, 0),
             diarization_buffers |-> Put(dbufs, sid, <<>>),
             diarization_sample_counts |-> Put(dcounts, sid, 0),
             diarization_offsets |->
                 [k \in (DOMAIN doffs) \cup {sid} |->
                     Get(doffs, sid, 0) + audio]]

\* SessionBuffer.get_diarization_audio: (audio, offset) and the fields
\* after it; is_none stands for the None returned for an empty buffer (the
\* defaultdict read creates the key).
GetDiarizationAudio(dbufs, dcounts, doffs, sid) ==
    IF Get(dbufs, sid, <<>>) = <<>>
    THEN [is_none |-> TRUE, audio |-> 0, offset |-> 0,
          diarization_buffers |-> Put(dbufs, sid, <<>>),
          diarization_sample_counts |-> dcounts,
          diarization_offsets |-> doffs]
    ELSE LET audio == SumSeq(dbufs[sid])
         IN [is_none |-> FALSE, audio |-> audio,
             offset |-> Get(doffs, sid, 0),
             diarization_buffers |-> Put(dbufs, sid, <<>>),
             diarization_sample_counts |-> Put(dcounts, sid, 0),
             diarization_offsets |-> Put(doffs, sid, Get(doffs, sid, 0) + audio)]

SkipDiarization_OnlyNone(is_none, audio) == is_none

\* diarization_loop: audio is None or len(audio) < TARGET_SAMPLE_RATE
SkipDiarization(is_none, audio) == is_none \/ audio < TARGET_SAMPLE_RATE

\* ModelManager.diarize: the speaker turns found in `audio` samples, with
\* times relative to the buffer; none when nothing is found or the pipeline
\* raised.
DiarizeResults(audio) ==
    {<<>>, <<[speaker |-> "SPEAKER_00", start |-> 0, end |-> audio]>>}

\* diarization_loop, "for s in speakers": shift by the time offset.
ShiftSpeakers(speakers, time_offset) ==
    [i \in 1..Len(speakers) |->
        [speaker |-> speakers[i].speaker,
         start |-> speakers[i].start + time_offset,
         end |-> speakers[i].end + time_offset]]

\* list(session_buf.diarization_buffers.keys()): the keys in insertion
\* order, which the dict model does not keep; every order is allowed.
KeyOrders(keys) ==
    {order \in [1..Cardinality(keys) -> keys] :
        \A i, j \in 1..Cardinality(keys) : i /= j => order[i] /= order[j]}

\* diarization_loop, "for session_id in session_ids", from the session at
\* the head of `todo` up to the next suspension point: the executor call of
\* the first session that is not skipped, or the sleep at the end of the list.
RECURSIVE DiaScan(_, _, _, _, _)
DiaScan(todo, dbufs, dcounts, doffs, log) ==
    IF todo = <<>>
    THEN [pc |-> "sleep", todo |-> <<>>, cur |-> NoDiaAudio,
          diarization_buffers |-> dbufs,
          diarization_sample_counts |-> dcounts,
          diarization_offsets |-> doffs, log |-> log]
    ELSE LET sid == Head(todo)
             got == GetDiarizationAudio(dbufs, dcounts, doffs, sid)
             skip == SkipDiarization(got.is_none, got.audio)
             entry == [session_id |-> sid, is_none |-> got.is_none,
                       audio |-> got.audio, called |-> ~skip]
         IN IF skip
            THEN DiaScan(Tail(todo), got.diarization_buffers,
                         got.diarization_sample_counts,
                         got.diarization_offsets, Append(log, entry))
            ELSE [pc |-> "diarize", todo |-> Tail(todo),
                  cur |-> [session_id |-> sid, audio |-> got.audio,
                           time_offset |-> got.offset,
                           entry |-> Len(log) + 1, speakers |-> <<>>],
                  diarization_buffers |-> got.diarization_buffers,
                  diarization_sample_counts |-> got.diarization_sample_counts,
                  diarization_offsets |-> got.diarization_offsets,
                  log |-> Append(log, entry)]

\* The effect of DiaScan on the state.
DiaContinue(todo) ==
    LET scan == DiaScan(todo, diarization_buffers, diarization_sample_counts,
                        diarization_offsets, diaLog)
    IN /\ dia_pc' = scan.pc
       /\ dia_todo' = scan.todo
       /\ dia_cur' = scan.cur
       /\ diarization_buffers' = scan.diarization_buffers
       /\ diarization_sample_counts' = scan.diarization_sample_counts
       /\ diarization_offsets' = scan.diarization_offsets
       /\ diaLog' = scan.log

\* diarization_loop: asyncio.sleep(DIARIZATION_INTERVAL) is over.
DiaTick ==
    /\ dia_pc = "sleep"
    /\ ticksLeft > 0
    /\ DiaFrame
    /\ ticksLeft' = ticksLeft - 1
    /\ \E session_ids \in KeyOrders(DOMAIN diarization_buffers) :
          DiaContinue(session_ids)
    /\ UNCHANGED dia_events
    /\ UNCHANGED <<asr_buffers, asr_sample_counts, segment_offsets,
                   audio_queue, asr_status_inbox, published, transcript_log,
                   asr_pc, result_data, drainedSum, epoch, lastDrain,
                   pushesLeft, statusLeft>>

\* diarization_loop: run_in_executor(None, models.diarize, audio) returns.
DiaDiarizeReturn ==
    /\ dia_pc = "diarize"
    /\ DiaFrame
    /\ \E speakers \in DiarizeResults(dia_cur.audio) :
          IF speakers /= <<>>
          THEN /\ dia_pc' = "publish"
               /\ dia_cur' = [dia_cur EXCEPT
                                !.speakers = ShiftSpeakers(speakers,
                                                           dia_cur.time_offset)]
               /\ UNCHANGED <<dia_todo, diarization_buffers,
                              diarization_sample_counts, diarization_offsets,
                              diaLog>>
          ELSE DiaContinue(dia_todo)
    /\ UNCHANGED <<dia_events, ticksLeft>>
    /\ UNCHANGED <<asr_buffers, asr_sample_counts, segment_offsets,
                   audio_queue, asr_status_inbox, published, transcript_log,
                   asr_pc, result_data, drainedSum, epoch, lastDrain,
                   pushesLeft, statusLeft>>

\* diarization_loop: redis_conn.publish(CHANNEL_DIARIZATION, ...) returns,
\* or raises and the loop sleeps until its next tick.
DiaPublish ==
    /\ dia_pc = "publish"
    /\ DiaFrame
    /\ \/ /\ dia_events' = [dia_events EXCEPT ![dia_cur.session_id] =
                              Append(@, [session_id |-> dia_cur.session_id,
                                         speakers |-> dia_cur.speakers,
                                         timestamp |-> Now,
                                         audio_duration |-> dia_cur.audio,
                                         entry |-> dia_cur.entry])]
          /\ DiaContinue(dia_todo)
       \/ /\ dia_pc' = "sleep"
          /\ dia_todo' = <<>>
          /\ dia_cur' = NoDiaAudio
          /\ UNCHANGED <<dia_events, diarization_buffers,
                         diarization_sample_counts, diarization_offsets,
                         diaLog>>
    /\ UNCHANGED ticksLeft
    /\ UNCHANGED <<asr_buffers, asr_sample_counts, segment_offsets,
                   audio_queue, asr_status_inbox, published, transcript_log,
                   asr_pc, result_data, drainedSum, epoch, lastDrain,
                   pushesLeft, statusLeft>>

\* worker-asr with its three tasks: asr_loop, diarization_loop and
\* session_monitor, and the gateway feeding them.
InitDia == InitAsrWith(MaxDiaPush, MaxStatus, MaxTicks)

NextDia ==
    \/ \E sid \in Sessions, audio \in DiaChunkSizes : GatewayPushAudio(sid, audio)
    \/ \E sid \in Sessions,
          status \in {"session_ended", "session_disconnected"} :
            GatewayStatus(sid, status)
    \/ AsrCycle
    \/ AsrPublish
    \/ AsrRpush
    \/ SessionMonitor
    \/ DiaTick
    \/ DiaDiarizeReturn
    \/ DiaPublish

\* ------------------------------------------------------------------------
\* worker-intelligence: Docker control and the progressive translation
\* ------------------------------------------------------------------------

\* manage_vllm(action): the container status afterwards. docker_ok is FALSE
\* when the Docker call raises (caught and logged, nothing changes).
ManageVllm_StopIsNoOp(status, action, docker_ok) ==
    IF ~docker_ok THEN status
    ELSE IF action = "start"
         THEN (IF status /= "running" THEN "running" ELSE status)
    ELSE status

ManageVllm(status, action, docker_ok) ==
    IF ~docker_ok THEN status
    ELSE IF action = "start"
         THEN (IF status /= "running" THEN "running" ELSE status)
    ELSE IF action = "stop"
         THEN (IF status = "running" THEN "exited" ELSE status)
    ELSE status

\* text.strip()
RECURSIVE LStrip(_)
LStrip(text) ==
    IF text = <<>> THEN <<>>
    ELSE IF Head(text).c \in {" ", "\n"} THEN LStrip(Tail(text))
    ELSE text

RECURSIVE RStrip(_)
RStrip(text) ==
    IF text = <<>> THEN <<>>
    ELSE IF text[Len(text)].c \in {" ", "\n"}
         THEN RStrip(SubSeq(text, 1, Len(text) - 1))
    ELSE text

Strip(text) == RStrip(LStrip(text))

\* SENTENCE_END_RE.search(text.strip()): the stripped text ends with one of
\* . ! ? or the ideographic full stop and the full-width ! ? ; : (written
\* here by their code points).
SentenceEndChars == {".", "!", "?", "U+3002", "U+FF01", "U+FF1F", "U+FF1B",
                     "U+FF1A"}

HasSentenceEnd(text) ==
    LET stripped == Strip(text)
    IN stripped /= <<>> /\ stripped[Len(stripped)].c \in SentenceEndChars

\* The characters of a text, whatever runs they were written in: adjacent
\* runs of the same character are merged.
RECURSIVE Canon(_)
Canon(text) ==
    IF Len(text) <= 1 THEN text
    ELSE LET rest == Canon(Tail(text))
         IN IF Head(text).c = Head(rest).c
            THEN <<Run(Head(text).c, Head(text).n + Head(rest).n)>> \o Tail(rest)
            ELSE <<Head(text)>> \o rest

\* hashlib.md5(merged_text.encode()).hexdigest(): a digest that depends on
\* the characters only; distinct texts of the model have distinct digests.
Md5Hex(text) == [md5 |-> Canon(text)]

\* " ".join(s["text"] for s in recent)
MergedText(recent) == JoinSpaces([i \in 1..Len(recent) |-> recent[i].text])

\* translation_loop: [s["seg_id"] for s in recent]
SegIds(recent) == [i \in 1..Len(recent) |-> recent[i].seg_id]

KeepWindow_KeepsOldest(segs) ==
    IF Len(segs) > SEGMENT_MERGE_WINDOW
    THEN SubSeq(segs, 1, SEGMENT_MERGE_WINDOW)
    ELSE segs

\* translation_loop: "保持窗口大小", the last SEGMENT_MERGE_WINDOW entries
KeepWindow(segs) ==
    IF Len(segs) > SEGMENT_MERGE_WINDOW
    THEN SubSeq(segs, Len(segs) - SEGMENT_MERGE_WINDOW + 1, Len(segs))
    ELSE segs

ShouldRevise_NoUpperBound(recent, text) ==
    /\ Len(recent) >= 2
    /\ TextLen(MergedText(recent)) >= REVISION_MIN_CHARS
    /\ HasSentenceEnd(text)

ShouldRevise_SentenceEndOnly(recent, text) ==
    /\ TextLen(MergedText(recent)) <= REVISION_MAX_CHARS
    /\ HasSentenceEnd(text)

\* translation_loop: should_revise
ShouldRevise(recent, text) ==
    /\ Len(recent) >= 2
    /\ TextLen(MergedText(recent)) >= REVISION_MIN_CHARS
    /\ TextLen(MergedText(recent)) <= REVISION_MAX_CHARS
    /\ HasSentenceEnd(text)

IsNewRevision_Always(text_hash, hashes, sid) == TRUE

\* translation_loop: text_hash != _last_revision_hash.get(session_id)
IsNewRevision(text_hash, hashes, sid) ==
    sid \notin DOMAIN hashes \/ text_hash /= hashes[sid]

\* The texts of the transcription events the translation engine is given.
TextA == <<Run("a", 14), Run(".", 1)>>

TextB == <<Run("b", 20)>>

TrInputs == {[text |-> TextA, language |-> "en"],
             [text |-> TextB, language |-> "en"]}

\* "Hello world. This is a test.": 28 characters, the last one a period.
HelloText == <<Run("h", 11), Run(".", 1), Run(" ", 1), Run("t", 14),
               Run(".", 1)>>

ScenarioInputs == {[text |-> HelloText, language |-> "en"],
                   [text |-> TextA, language |-> "en"]}

\* Texts around the two limits of the revision: with TextA (15 characters
\* and a period at the end) Text14 merges to 30 characters, Text13 to 29,
\* Text184 to 200 and Text185 to 201.
Text13 == <<Run("d", 12), Run("!", 1)>>

Text14 == <<Run("e", 13), Run("?", 1)>>

Text184 == <<Run("c", 184)>>

Text185 == <<Run("c", 185)>>

WinInputs == {[text |-> t, language |-> "en"] :
                 t \in {TextA, Text13, Text14, Text184, Text185}}

\* A Chinese sentence of 15 ideographs and an ideographic full stop.
TextZh == <<Run("U+4E2D", 15), Run("U+3002", 1)>>

\* Events whose language tag (Whisper's info.language, or none: the
\* default "auto") agrees with the script of the text or not.
DirInputs == {[text |-> t, language |-> l] :
                 t \in {TextA, TextZh}, l \in {"en", "zh", "ja", "auto"}}

NoMessage == [session_id |-> "none"]

NoOutcome == [session_id |-> "none", outcome |-> "none"]

\* The translation loop before any message, with `budget` transcription
\* events still to come and the language modes the gateway has SET.
InitTrWith(langs, budget) ==
    /\ session_lang = langs
    /\ session_segments = EmptyDict
    /\ last_revision_hash = EmptyDict
    /\ tr_inbox = <<>>
    /\ tr_pc = "listen"
    /\ tr_cur = NoMessage
    /\ tr_clock = [s \in Sessions |-> 0]
    /\ revLog = [s \in Sessions |-> <<>>]
    /\ drafts = [s \in Sessions |-> 0]
    /\ transcriptionsLeft = budget
    /\ tr_last = NoOutcome
    /\ draftIds = {}

TrIdle == InitTrWith(EmptyDict, 0)

LlmIdle ==
    /\ llm_client = FALSE
    /\ vllm_status = "exited"

\* The sessions were started by the gateway ("start" control: SET
\* session:lang:<id>) with a language mode each.
InitTr ==
    \E langs \in [Sessions -> {"en", "zh"}] : InitTrWith(langs, MaxTranscriptions)

\* asr_loop's PUBLISH on ch:transcriptions as the translation loop sees it.
TranscriptionPublished(sid, input) ==
    /\ transcriptionsLeft > 0
    /\ tr_inbox = <<>>
    /\ tr_pc = "listen"
    /\ transcriptionsLeft' = transcriptionsLeft - 1
    /\ tr_inbox' = Append(tr_inbox, [session_id |-> sid, text |-> input.text,
                                     language |-> input.language])
    /\ UNCHANGED <<session_lang, session_segments, last_revision_hash, tr_pc,
                   tr_cur, tr_clock, revLog, drafts, endProcessed, tr_last,
                   draftIds>>
    /\ UNCHANGED llmVars
    /\ TrFrame

\* translate_text: any('\u4e00' <= c <= '\u9fff' for c in text), with the
\* characters written by their code points. The ideographic full stop
\* U+3002 and the kana lie outside the range.
CjkChars == {"U+4E00", "U+4E2D", "U+6587", "U+9FFF"}

HasCjk(text) == \E i \in 1..Len(text) : text[i].n > 0 /\ text[i].c \in CjkChars

\* translate_text, "偵測語言方向": the source and target language of the
\* prompt for `text` when the caller passes `source_lang`.
TranslateDirection(text, source_lang) ==
    LET source == IF source_lang = "auto"
                  THEN (IF HasCjk(text) THEN "zh" ELSE "en")
                  ELSE source_lang
    IN [source_lang |-> source,
        target_lang |-> IF source = "zh" THEN "en" ELSE "zh"]

\* translation_loop: `if session_lang and session_lang == "zh"`
IsZhMode_Never(lang) == FALSE

IsZhMode(lang) == lang = "zh"

\* translation_loop: one message, from pubsub.listen() to the completion
\* call of the draft inside translate_text (or to the next listen()).
TrReceive ==
    /\ tr_pc = "listen"
    /\ tr_inbox /= <<>>
    /\ TrFrame
    /\ LET data == Head(tr_inbox)
           sid == data.session_id
           lang == Get(session_lang, sid, "None")
       IN /\ tr_inbox' = Tail(tr_inbox)
          /\ tr_last' = [session_id |-> sid,
                         outcome |-> IF IsZhMode(lang) THEN "zh"
                                     ELSE IF IsBlank(data.text) THEN "blank"
                                     ELSE "translate"]
          /\ IF IsZhMode(lang) \/ IsBlank(data.text)
             THEN UNCHANGED <<session_segments, tr_pc, tr_cur, tr_clock,
                              llm_client, vllm_status, endProcessed>>
             ELSE /\ tr_clock' = [tr_clock EXCEPT ![sid] = @ + 1]
                  /\ endProcessed' = [endProcessed EXCEPT ![sid] = FALSE]
                  /\ session_segments' =
                        Put(session_segments, sid,
                            KeepWindow(Append(Get(session_segments, sid, <<>>),
                                              [text |-> data.text,
                                               seg_id |-> <<sid, tr_clock'[sid]>>])))
                  /\ tr_cur' = [session_id |-> sid, text |-> data.text,
                                source_lang |-> data.language,
                                seg_id |-> <<sid, tr_clock'[sid]>>,
                                direction |->
                                    TranslateDirection(data.text, data.language)]
                  \* translate_text: "if not llm_client"
                  /\ IF ~llm_client
                     THEN /\ \E docker_ok \in BOOLEAN :
                               vllm_status' = ManageVllm(vllm_status, "start", docker_ok)
                          /\ llm_client' = TRUE
                     ELSE UNCHANGED <<llm_client, vllm_status>>
                  /\ tr_pc' = "draft_call"
    /\ UNCHANGED <<session_lang, last_revision_hash, revLog, drafts,
                   transcriptionsLeft, draftIds>>

\* translation_loop: the draft's completion call returns (ok) or raises;
\* the draft is published and the revision is decided, up to the completion
\* call of the revision (or to the next listen()).
TrDraftReturn ==
    /\ tr_pc = "draft_call"
    /\ TrFrame
    /\ \E ok \in BOOLEAN :
        /\ ok => vllm_status = "running"
        /\ IF ~ok
           THEN /\ tr_pc' = "listen"
                /\ tr_cur' = NoMessage
                /\ UNCHANGED <<session_segments, last_revision_hash, revLog,
                               drafts, draftIds>>
           ELSE LET sid == tr_cur.session_id
                    recent == session_segments[sid]
                    merged_text == MergedText(recent)
                    text_hash == Md5Hex(merged_text)
                IN /\ drafts' = [drafts EXCEPT ![sid] = @ + 1]
                   /\ draftIds' = draftIds \cup {tr_cur.seg_id}
                   /\ IF ShouldRevise(recent, tr_cur.text)
                      THEN IF IsNewRevision(text_hash, last_revision_hash, sid)
                           THEN /\ last_revision_hash' =
                                     Put(last_revision_hash, sid, text_hash)
                                /\ tr_pc' = "revision_call"
                                /\ tr_cur' = [session_id |-> sid,
                                              text |-> tr_cur.text,
                                              source_lang |-> tr_cur.source_lang,
                                              seg_id |-> tr_cur.seg_id,
                                              merged_text |-> merged_text,
                                              direction |->
                                                  TranslateDirection(
                                                      merged_text,
                                                      tr_cur.source_lang)]
                                /\ UNCHANGED <<session_segments, revLog>>
                           ELSE /\ session_segments' = Put(session_segments, sid, <<>>)
                                /\ tr_pc' = "listen"
                                /\ tr_cur' = NoMessage
                                /\ revLog' = [revLog EXCEPT ![sid] =
                                      Append(@, [hash |-> text_hash,
                                                 outcome |-> "suppressed",
                                                 seg_ids |-> SegIds(recent)])]
                                /\ UNCHANGED last_revision_hash
                      ELSE /\ IF TextLen(merged_text) > REVISION_MAX_CHARS
                              THEN session_segments' =
                                     Put(session_segments, sid,
                                         SubSeq(recent, Len(recent), Len(recent)))
                              ELSE UNCHANGED session_segments
                           /\ tr_pc' = "listen"
                           /\ tr_cur' = NoMessage
                           /\ UNCHANGED <<last_revision_hash, revLog>>
    /\ UNCHANGED <<session_lang, tr_inbox, tr_clock, transcriptionsLeft,
                   endProcessed, tr_last>>
    /\ UNCHANGED llmVars

\* translation_loop: the revision's completion call returns or raises; the
\* revision is published when it returned, and the window is emptied.
TrRevisionReturn ==
    /\ tr_pc = "revision_call"
    /\ TrFrame
    /\ \E ok \in BOOLEAN :
        /\ ok => vllm_status = "running"
        /\ revLog' = [revLog EXCEPT ![tr_cur.session_id] =
                        Append(@, [hash |-> Md5Hex(tr_cur.merged_text),
                                   outcome |-> IF ok THEN "published"
                                               ELSE "failed",
                                   seg_ids |->
                                       SegIds(session_segments[tr_cur.session_id])])]
    /\ session_segments' = Put(session_segments, tr_cur.session_id, <<>>)
    /\ tr_pc' = "listen"
    /\ tr_cur' = NoMessage
    /\ UNCHANGED <<session_lang, last_revision_hash, tr_inbox, tr_clock,
                   drafts, transcriptionsLeft, endProcessed, tr_last,
                   draftIds>>
    /\ UNCHANGED llmVars

NextTr ==
    \/ \E sid \in Sessions, input \in TrInputs : TranscriptionPublished(sid, input)
    \/ TrReceive
    \/ TrDraftReturn
    \/ TrRevisionReturn

\* The translation loop given the scenario's texts.
InitScenario ==
    \E langs \in [Sessions -> {"en", "zh"}] :
        InitTrWith(langs, MaxIntTranscriptions)

NextScenario ==
    \/ \E sid \in Sessions, input \in ScenarioInputs :
          TranscriptionPublished(sid, input)
    \/ TrReceive
    \/ TrDraftReturn
    \/ TrRevisionReturn

\* ------------------------------------------------------------------------
\* worker-intelligence: split_transcript_into_chunks
\* ------------------------------------------------------------------------

\* split_transcript_into_chunks, the "for line in lines" loop from line i
\* on: the values of chunks and current_chunk when the loop ends.
RECURSIVE ChunkLoop(_, _, _, _, _, _)
ChunkLoop(lines, i, chunks, current_chunk, current_len, chunk_size) ==
    IF i > Len(lines)
    THEN [chunks |-> chunks, current_chunk |-> current_chunk]
    ELSE LET line == lines[i]
             line_len == TextLen(line) + 1
         IN IF current_len + line_len > chunk_size /\ current_chunk /= <<>>
            THEN ChunkLoop(lines, i + 1,
                           Append(chunks, JoinLines(current_chunk)),
                           <<line>>, line_len, chunk_size)
            ELSE ChunkLoop(lines, i + 1, chunks,
                           Append(current_chunk, line),
                           current_len + line_len, chunk_size)

SplitTranscriptIntoChunks_NoFinalFlush(text, chunk_size) ==
    ChunkLoop(SplitLines(text), 1, <<>>, <<>>, 0, chunk_size).chunks

\* split_transcript_into_chunks(text, chunk_size)
SplitTranscriptIntoChunks(text, chunk_size) ==
    LET loop == ChunkLoop(SplitLines(text), 1, <<>>, <<>>, 0, chunk_size)
    IN IF loop.current_chunk /= <<>>
       THEN Append(loop.chunks, JoinLines(loop.current_chunk))
       ELSE loop.chunks

\* Inputs of the function under check: texts of up to MaxTextAtoms atoms.
SplitAtoms == {NL, Run("a", 1), Run("b", 2)}

RECURSIVE TextsUpTo(_)
TextsUpTo(k) ==
    IF k = 0 THEN {<<>>}
    ELSE LET shorter == TextsUpTo(k - 1)
         IN shorter \cup {Append(t, a) : t \in shorter, a \in SplitAtoms}

SplitIdle ==
    /\ split_text = <<>>
    /\ split_size = 0
    /\ split_chunks = <<>>
    /\ split_pc = "idle"

InitSplit ==
    /\ split_text \in TextsUpTo(MaxTextAtoms)
    /\ split_size \in 1..MaxChunkSize
    /\ split_chunks = <<>>
    /\ split_pc = "call"

SplitCall ==
    /\ split_pc = "call"
    /\ split_chunks' = SplitTranscriptIntoChunks(split_text, split_size)
    /\ split_pc' = "returned"
    /\ UNCHANGED <<split_text, split_size>>
    /\ SplitFrame

\* ------------------------------------------------------------------------
\* worker-intelligence: summary_monitor and generate_summary
\* ------------------------------------------------------------------------

\* The strings generate_summary returns on its failure paths. `marker` is
\* the character the string starts with: "cross" for the cross mark,
\* "warning" for the warning sign, "none" for anything else.
WarmupFailedMsg == [marker |-> "cross", body |-> "GPU warm-up failed"]

NoRecordsMsg == [marker |-> "warning", body |-> "no transcript records"]

BlankTranscriptMsg == [marker |-> "warning", body |-> "transcript is empty"]

SummaryFailedMsg == [marker |-> "cross", body |-> "summary generation failed"]

\* The texts the completion service may stream as the summary.
LlmSummaries == {[marker |-> "none", body |-> "summary"],
                 [marker |-> "cross", body |-> "summary"]}

\* summary_monitor: summary.startswith(cross mark) or
\* summary.startswith(warning sign)
StartsWithErrorMarker(summary) == summary.marker \in {"cross", "warning"}

\* generate_summary: the "[HH:MM:SS] " put before a record's text
TimePrefix == <<Run("[", 1), Run("t", 8), Run("]", 1), Run(" ", 1)>>

\* generate_summary: full_transcript = "\n".join(full_transcript_parts)
FullTranscript(records) ==
    JoinLines([i \in 1..Len(records) |->
                 IF records[i].timestamp /= 0
                 THEN TimePrefix \o records[i].text
                 ELSE records[i].text])

UseChunked_Inclusive(transcript_len) == transcript_len >= CHUNK_THRESHOLD

\* generate_summary: use_chunked = transcript_len > CHUNK_THRESHOLD
UseChunked(transcript_len) == transcript_len > CHUNK_THRESHOLD

\* ensure_llm_ready: what it returns once the polling loop is left
EnsureLlmReadyResult(timed_out) == ~timed_out

NoJob ==
    [session_id |-> "none", finished |-> TRUE, polls |-> 0, ready |-> "unknown",
     records_empty |-> FALSE, transcript_blank |-> FALSE, transcript_len |-> 0,
     chunks |-> <<>>, i |-> 0, chunk_summaries |-> <<>>, prompt |-> "none",
     calls |-> 0, stops |-> 0, events |-> <<>>, summary |-> [marker |-> "none", body |-> "pending"],
     lease_at_terminal |-> "none", start_ok |-> "none", stop_ok |-> "none",
     lease_before_stop |-> "none", in_flight_at_stop |-> "none",
     stream |-> <<>>, stream_state |-> "none", tokens |-> <<>>,
     full_summary |-> <<>>, chunk_buffer |-> <<>>, flushed |-> <<>>]

\* History of manage_vllm("stop") in generate_summary: whether the Docker
\* call went through, the container status it found, and the session whose
\* translation call was awaiting its completion at that moment.
StopRequested(j, docker_ok) ==
    [j EXCEPT !.stops = @ + 1,
              !.stop_ok = IF docker_ok THEN "ok" ELSE "error",
              !.lease_before_stop = vllm_status,
              !.in_flight_at_stop =
                  IF tr_pc \in {"draft_call", "revision_call"}
                  THEN tr_cur.session_id ELSE "none"]

NewJob(sid) == [NoJob EXCEPT !.session_id = sid, !.finished = FALSE]

ChunkEvent(what, index) ==
    [type |-> "summary_chunk", body |-> [marker |-> "none", body |-> what],
     index |-> index, stops_before |-> 0]

DoneEvent(summary, stops) ==
    [type |-> "summary_done", body |-> summary, index |-> 0,
     stops_before |-> stops]

\* The transcript logs a session may have when it ends: no record, one
\* record with empty text, one record that makes the transcript exactly
\* CHUNK_THRESHOLD characters long, one character more, three records of
\* 4000 characters, and a short one.
Record(text) == [text |-> text, timestamp |-> Now]

SumLogs ==
    {<<>>,
     <<Record(<<>>)>>,
     <<Record(<<Run("w", 9989)>>)>>,
     <<Record(<<Run("w", 9990)>>)>>,
     <<Record(<<Run("w", 4000)>>), Record(<<Run("w", 4000)>>),
       Record(<<Run("w", 4000)>>)>>,
     <<Record(<<Run("a", 14), Run(".", 1)>>)>>}

SumIdle ==
    /\ sum_inbox = <<>>
    /\ sum_pc = "listen"
    /\ job = NoJob
    /\ endSent = 0
    /\ endProcessed = [s \in Sessions |-> FALSE]

\* app-gateway websocket_endpoint: the status message as summary_monitor
\* sees it.
StatusPublished(sid, status) ==
    /\ endSent < MaxEnd
    /\ endSent' = endSent + 1
    /\ sum_inbox' = Append(sum_inbox, [session_id |-> sid, status |-> status])
    /\ UNCHANGED <<sum_pc, job, endProcessed>>
    /\ UNCHANGED llmVars
    /\ SumFrame

StartsSummary_AnyStatus(status) == TRUE

\* summary_monitor: `if status in ("session_ended",) and session_id`
StartsSummary(status) == status = "session_ended"

\* summary_monitor: one status message, up to asyncio.sleep(3).
SumReceive ==
    /\ sum_pc = "listen"
    /\ sum_inbox /= <<>>
    /\ SumFrame
    /\ LET data == Head(sum_inbox)
       IN /\ sum_inbox' = Tail(sum_inbox)
          /\ endProcessed' = [endProcessed EXCEPT ![data.session_id] = TRUE]
          /\ IF StartsSummary(data.status)
             THEN /\ sum_pc' = "grace"
                  /\ job' = NewJob(data.session_id)
             ELSE UNCHANGED <<sum_pc, job>>
    /\ UNCHANGED endSent
    /\ UNCHANGED llmVars

\* generate_summary / ensure_llm_ready: after the sleep, manage_vllm("start"),
\* the client is created if missing, and the first models.list() is awaited.
SumWarmupStart ==
    /\ sum_pc = "grace"
    /\ SumFrame
    /\ \E docker_ok \in BOOLEAN :
          /\ vllm_status' = ManageVllm(vllm_status, "start", docker_ok)
          /\ job' = [job EXCEPT !.start_ok = IF docker_ok THEN "ok" ELSE "error"]
    /\ llm_client' = TRUE
    /\ sum_pc' = "warmup"
    /\ UNCHANGED <<sum_inbox, endSent, endProcessed>>

AfterWarmup_FailureProceeds(ready) ==
    /\ sum_pc' = "collect"
    /\ job' = [job EXCEPT !.ready = IF ready THEN "yes" ELSE "no"]

\* generate_summary, after ensure_llm_ready returned `ready`: either the
\* failure string goes back to summary_monitor, which publishes it, or the
\* transcript is read.
AfterWarmup(ready) ==
    IF ~ready
    THEN /\ sum_pc' = "terminal"
         /\ job' = [job EXCEPT !.ready = "no", !.summary = WarmupFailedMsg]
    ELSE /\ sum_pc' = "collect"
         /\ job' = [job EXCEPT !.ready = "yes"]

\* ensure_llm_ready: models.list() answers; the container runs.
SumPollOk ==
    /\ sum_pc = "warmup"
    /\ vllm_status = "running"
    /\ SumFrame
    /\ AfterWarmup(EnsureLlmReadyResult(FALSE))
    /\ UNCHANGED <<sum_inbox, endSent, endProcessed>>
    /\ UNCHANGED llmVars

\* ensure_llm_ready: models.list() raises; after asyncio.sleep(2) either
\* there is time left for another poll or the timeout has passed.
SumPollFail ==
    /\ sum_pc = "warmup"
    /\ SumFrame
    /\ \E timed_out \in BOOLEAN :
        /\ job.polls + 1 >= MaxPolls => timed_out
        /\ IF timed_out
           THEN AfterWarmup(EnsureLlmReadyResult(TRUE))
           ELSE /\ job' = [job EXCEPT !.polls = @ + 1]
                /\ UNCHANGED sum_pc
    /\ UNCHANGED <<sum_inbox, endSent, endProcessed>>
    /\ UNCHANGED llmVars

\* generate_summary: lrange returned; steps 2 to 5, up to the next await
\* (the first publish of the chunked path, or the streamed completion call)
\* or to the return of a failure string.
SumCollect ==
    /\ sum_pc = "collect"
    /\ SumFrame
    /\ LET records == transcript_log[job.session_id]
           full_transcript == FullTranscript(records)
           transcript_len == TextLen(full_transcript)
       IN IF records = <<>>
          THEN /\ \E docker_ok \in BOOLEAN :
                     /\ vllm_status' = ManageVllm(vllm_status, "stop", docker_ok)
                     /\ job' = StopRequested(
                                  [job EXCEPT !.records_empty = TRUE,
                                              !.summary = NoRecordsMsg],
                                  docker_ok)
               /\ sum_pc' = "terminal"
          ELSE IF IsBlank(full_transcript)
          THEN /\ \E docker_ok \in BOOLEAN :
                     /\ vllm_status' = ManageVllm(vllm_status, "stop", docker_ok)
                     /\ job' = StopRequested(
                                  [job EXCEPT !.transcript_blank = TRUE,
                                              !.summary = BlankTranscriptMsg],
                                  docker_ok)
               /\ sum_pc' = "terminal"
          ELSE IF UseChunked(transcript_len)
          THEN /\ job' = [job EXCEPT
                            !.transcript_len = transcript_len,
                            !.transcript_blank =
                                \A k \in 1..Len(records) : IsBlank(records[k].text),
                            !.chunks = SplitTranscriptIntoChunks(full_transcript,
                                                                 CHUNK_SIZE)]
               /\ sum_pc' = "notify"
               /\ UNCHANGED vllm_status
          ELSE /\ job' = [job EXCEPT
                            !.transcript_len = transcript_len,
                            !.transcript_blank =
                                \A k \in 1..Len(records) : IsBlank(records[k].text),
                            !.prompt = "SUMMARY_SYSTEM_PROMPT",
                            !.calls = @ + 1]
               /\ sum_pc' = "stream_call"
               /\ UNCHANGED vllm_status
    /\ UNCHANGED <<sum_inbox, endSent, endProcessed, llm_client>>

\* generate_summary, chunked path: the "start of chunked mode" event is
\* published; the progress event of chunk 1 is awaited next.
SumNotify ==
    /\ sum_pc = "notify"
    /\ SumFrame
    /\ job' = [job EXCEPT !.events = Append(@, ChunkEvent("chunked mode", 0)),
                          !.i = 1]
    /\ sum_pc' = "map_progress"
    /\ UNCHANGED <<sum_inbox, endSent, endProcessed>>
    /\ UNCHANGED llmVars

\* generate_summary, Map: the progress event of chunk i is published and
\* summarize_chunk issues its completion call.
SumMapProgress ==
    /\ sum_pc = "map_progress"
    /\ SumFrame
    /\ job' = [job EXCEPT !.events = Append(@, ChunkEvent("progress", job.i)),
                          !.calls = @ + 1]
    /\ sum_pc' = "map_call"
    /\ UNCHANGED <<sum_inbox, endSent, endProcessed>>
    /\ UNCHANGED llmVars

MapDone_AfterFirstChunk(i, chunks) == TRUE

\* generate_summary: "for i, chunk in enumerate(chunks, 1)" is exhausted
\* after chunk i
MapDone(i, chunks) == i >= Len(chunks)

\* summarize_chunk: the completion call returns, or raises and the
\* placeholder text is returned; then the next chunk, or the "merging"
\* event.
SumMapReturn ==
    /\ sum_pc = "map_call"
    /\ SumFrame
    /\ \E ok \in BOOLEAN :
        /\ ok => vllm_status = "running"
        /\ job' = [job EXCEPT
                     !.chunk_summaries = Append(@, [index |-> job.i, ok |-> ok]),
                     !.i = IF ~MapDone(job.i, job.chunks) THEN job.i + 1 ELSE job.i]
    /\ sum_pc' = IF ~MapDone(job.i, job.chunks) THEN "map_progress" ELSE "merge_notify"
    /\ UNCHANGED <<sum_inbox, endSent, endProcessed>>
    /\ UNCHANGED llmVars

\* generate_summary, Reduce: the "merging" event is published and the
\* streamed completion call with MERGE_SUMMARY_PROMPT is issued.
SumMergeNotify ==
    /\ sum_pc = "merge_notify"
    /\ SumFrame
    /\ job' = [job EXCEPT !.events = Append(@, ChunkEvent("merging", 0)),
                          !.prompt = "MERGE_SUMMARY_PROMPT",
                          !.calls = @ + 1]
    /\ sum_pc' = "stream_call"
    /\ UNCHANGED <<sum_inbox, endSent, endProcessed>>
    /\ UNCHANGED llmVars

\* generate_summary, the try block: the streamed completion. Either it
\* delivers full_summary (its chunks and summary_done are published, stop
\* is requested, and summary_monitor publishes once more when the text starts
\* with an error marker), or the call or the stream raises (stop is
\* requested, the failure string goes to summary_monitor).
SumStream ==
    /\ sum_pc = "stream_call"
    /\ SumFrame
    /\ \E docker_ok \in BOOLEAN :
       /\ vllm_status' = ManageVllm(vllm_status, "stop", docker_ok)
       /\ \/ /\ vllm_status = "running"
             /\ \E full_summary \in LlmSummaries :
                  /\ job' = StopRequested(
                        [job EXCEPT
                            !.events = @ \o <<ChunkEvent("stream", 0),
                                              DoneEvent(full_summary, job.stops)>>,
                            !.summary = full_summary,
                            !.finished = ~StartsWithErrorMarker(full_summary),
                            !.lease_at_terminal = vllm_status],
                        docker_ok)
                  /\ sum_pc' = IF StartsWithErrorMarker(full_summary)
                               THEN "terminal" ELSE "listen"
          \/ /\ \E streamed \in BOOLEAN :
                  job' = StopRequested(
                        [job EXCEPT
                            !.events = IF streamed
                                       THEN Append(@, ChunkEvent("stream", 0))
                                       ELSE @,
                            !.summary = SummaryFailedMsg],
                        docker_ok)
             /\ sum_pc' = "terminal"
    /\ UNCHANGED <<sum_inbox, endSent, endProcessed, llm_client>>

\* The contents of the deltas of a streamed completion: a delta without
\* content, 7 and 13 characters (20 together), and one with a newline in
\* the middle.
StreamTokens == {<<>>, <<Run("x", 7)>>, <<Run("y", 13)>>,
                 <<Run("z", 3), NL, Run("w", 2)>>}

RECURSIVE TokenSeqs(_)
TokenSeqs(n) ==
    IF n = 0 THEN {<<>>}
    ELSE LET shorter == TokenSeqs(n - 1)
         IN shorter \cup {Append(q, t) : q \in {r \in shorter : Len(r) = n - 1},
                                         t \in StreamTokens}

\* the in-order concatenation of a list of texts
RECURSIVE Flatten(_)
Flatten(texts) ==
    IF texts = <<>> THEN <<>> ELSE Head(texts) \o Flatten(Tail(texts))

\* '\n' in chunk_buffer
HasNewline(text) == \E i \in 1..Len(text) : text[i] = NL

ShouldFlush_LengthOnly(chunk_buffer) ==
    TextLen(chunk_buffer) >= FLUSH_CHARS

\* generate_summary: if '\n' in chunk_buffer or len(chunk_buffer) >= 20
ShouldFlush(chunk_buffer) ==
    HasNewline(chunk_buffer) \/ TextLen(chunk_buffer) >= FLUSH_CHARS

\* generate_summary, the try block: chat.completions.create returns the
\* stream.
SumStreamOpen ==
    /\ sum_pc = "stream_call"
    /\ vllm_status = "running"
    /\ SumFrame
    /\ \E tokens \in TokenSeqs(MaxTokens) :
          job' = [job EXCEPT !.stream = tokens, !.stream_state = "open"]
    /\ sum_pc' = "streaming"
    /\ UNCHANGED <<sum_inbox, endSent, endProcessed>>
    /\ UNCHANGED llmVars

\* generate_summary, "async for chunk in stream": one delta; its content,
\* when there is one, goes to chunk_buffer and full_summary, and the buffer
\* is published and emptied when it should be flushed.
SumStreamDelta ==
    /\ sum_pc = "streaming"
    /\ job.stream /= <<>>
    /\ SumFrame
    /\ LET content == Head(job.stream)
           chunk_buffer == job.chunk_buffer \o content
           received == [job EXCEPT !.stream = Tail(@),
                                   !.tokens = Append(@, content)]
       IN IF content = <<>>
          THEN job' = received
          ELSE IF ShouldFlush(chunk_buffer)
          THEN job' = [received EXCEPT
                          !.full_summary = @ \o content,
                          !.chunk_buffer = <<>>,
                          !.flushed = Append(@, chunk_buffer),
                          !.events = Append(@, ChunkEvent("stream", 0))]
          ELSE job' = [received EXCEPT
                          !.full_summary = @ \o content,
                          !.chunk_buffer = chunk_buffer]
    /\ UNCHANGED <<sum_inbox, sum_pc, endSent, endProcessed>>
    /\ UNCHANGED llmVars

\* generate_summary: the stream is exhausted; what is left in the buffer is
\* published, then summary_done with full_summary; stop is requested and
\* full_summary goes back to summary_monitor, which has nothing to add.
SumStreamEnd ==
    /\ sum_pc = "streaming"
    /\ job.stream = <<>>
    /\ SumFrame
    /\ \E docker_ok \in BOOLEAN :
          /\ vllm_status' = ManageVllm(vllm_status, "stop", docker_ok)
          /\ LET summary == [marker |-> "none", body |-> "summary"]
                 rest == IF job.chunk_buffer /= <<>>
                         THEN <<ChunkEvent("stream", 0)>> ELSE <<>>
             IN job' = StopRequested(
                   [job EXCEPT
                       !.events = @ \o rest \o <<DoneEvent(summary, job.stops)>>,
                       !.flushed = IF job.chunk_buffer /= <<>>
                                   THEN Append(@, job.chunk_buffer) ELSE @,
                       !.chunk_buffer = <<>>,
                       !.summary = summary,
                       !.stream_state = "done",
                       !.finished = TRUE,
                       !.lease_at_terminal = vllm_status],
                   docker_ok)
    /\ sum_pc' = "listen"
    /\ UNCHANGED <<sum_inbox, endSent, endProcessed, llm_client>>

\* generate_summary, "except Exception": the completion call or the
\* iteration over the stream raises; stop is requested and the failure
\* string goes back to summary_monitor.
SumStreamRaises ==
    /\ sum_pc \in {"stream_call", "streaming"}
    /\ SumFrame
    /\ \E docker_ok \in BOOLEAN :
          /\ vllm_status' = ManageVllm(vllm_status, "stop", docker_ok)
          /\ job' = StopRequested([job EXCEPT !.summary = SummaryFailedMsg,
                                              !.stream_state = "failed"],
                                  docker_ok)
    /\ sum_pc' = "terminal"
    /\ UNCHANGED <<sum_inbox, endSent, endProcessed, llm_client>>

\* summary_monitor: the one-off summary_done with the returned string is
\* published.
SumTerminal ==
    /\ sum_pc = "terminal"
    /\ SumFrame
    /\ job' = [job EXCEPT !.events = Append(@, DoneEvent(job.summary, job.stops)),
                          !.finished = TRUE,
                          !.lease_at_terminal = vllm_status]
    /\ sum_pc' = "listen"
    /\ UNCHANGED <<sum_inbox, endSent, endProcessed>>
    /\ UNCHANGED llmVars

\* generate_summary / summary_monitor: a Redis call awaited outside the try
\* block of generate_summary raises (the lrange of the transcript, one of
\* the progress publishes of the chunked path, or the one-off summary_done
\* of summary_monitor). summary_monitor catches asyncio.CancelledError
\* only, so the exception leaves it; asyncio.gather hands it to main, main
\* closes the connection and returns, and asyncio.run cancels
\* translation_loop.
SumRedisRaises ==
    /\ sum_pc \in {"collect", "notify", "map_progress", "merge_notify",
                   "terminal"}
    /\ sum_pc' = "dead"
    /\ tr_pc' = "cancelled"
    /\ UNCHANGED <<sum_inbox, job, endSent, endProcessed>>
    /\ UNCHANGED llmVars
    /\ UNCHANGED <<asrVars, splitVars, gwVars>>
    /\ UNCHANGED <<session_lang, session_segments, last_revision_hash,
                   tr_inbox, tr_cur, tr_clock, revLog, drafts,
                   transcriptionsLeft, tr_last, draftIds>>

InitSum == SumIdle

NextSum ==
    \/ \E sid \in Sessions,
          status \in {"session_ended", "session_disconnected"} :
            StatusPublished(sid, status)
    \/ SumReceive
    \/ SumWarmupStart
    \/ SumPollOk
    \/ SumPollFail
    \/ SumCollect
    \/ SumNotify
    \/ SumMapProgress
    \/ SumMapReturn
    \/ SumMergeNotify
    \/ SumStream
    \/ SumTerminal

\* ------------------------------------------------------------------------
\* app-gateway: ConnectionManager, websocket_endpoint, redis_subscriber and
\* the Docker control tasks
\* ------------------------------------------------------------------------

\* The websockets in the order in which they are opened; str(uuid.uuid4())
\* of a websocket is represented by the websocket's own name.
WebsocketOrder == <<"w1", "w2", "w3">>

Websockets == {WebsocketOrder[i] : i \in DOMAIN WebsocketOrder}

\* session_id of an event or of a "start" control that carries none
NoSessionId == "None"

\* cmd.get("session_id") of a "start" control
CustomSids == {NoSessionId, "S1"}

\* cmd.get("language", "zh") of a "start" control
StartLanguages == {"en", "zh"}

\* data.get("session_id") of the events the workers publish
EventSids == {NoSessionId, "w1"}

NoRoute == [key |-> "none", ws |-> "none", size |-> 0, keys |-> {},
            visited |-> {}, disconnected |-> {}]

NoRouting ==
    [session_id |-> "none", mode |-> "none", registered |-> {},
     target |-> "none", delivered |-> {}, failed |-> {}, outcome |-> "none",
     registered_end |-> {}]

\* The gateway before any connection, with the connections, "start"
\* controls and worker events still to come.
GwIdleWith(connects, starts, events) ==
    /\ active_connections = EmptyDict
    /\ ws_pc = [w \in Websockets |-> "new"]
    /\ ws_sid = [w \in Websockets |-> "none"]
    /\ ws_lang = [w \in Websockets |-> "none"]
    /\ router_inbox = <<>>
    /\ router_pc = "listen"
    /\ router_cur = NoRoute
    /\ last_route = NoRouting
    /\ gw_tasks = <<>>
    /\ connectsLeft = connects
    /\ startsLeft = starts
    /\ eventsLeft = events

GwIdle == GwIdleWith(0, 0, 0)

\* The websockets registered in the ConnectionManager.
Registered(conns) == {conns[k] : k \in DOMAIN conns}

\* ConnectionManager.disconnect
Disconnect(conns, session_id) == Pop(conns, session_id)

\* websocket_endpoint: a client connects; after accept() the websocket is
\* registered under a fresh uuid.
WsConnect(w) ==
    /\ ws_pc[w] = "new"
    /\ \A i, j \in DOMAIN WebsocketOrder :
          (i < j /\ WebsocketOrder[j] = w) => ws_pc[WebsocketOrder[i]] /= "new"
    /\ connectsLeft > 0
    /\ GwFrame
    /\ NoStatus
    /\ connectsLeft' = connectsLeft - 1
    /\ active_connections' = Put(active_connections, w, w)
    /\ ws_pc' = [ws_pc EXCEPT ![w] = "receive"]
    /\ ws_sid' = [ws_sid EXCEPT ![w] = w]
    /\ UNCHANGED <<ws_lang, router_inbox, router_pc, router_cur, last_route,
                   gw_tasks, startsLeft, eventsLeft>>
    /\ UNCHANGED <<session_lang, vllm_status>>

\* websocket_endpoint, "start" control, up to `await r.set(...)`: with a
\* custom session id the websocket is registered anew under that id.
WsStart(w, custom_sid, language) ==
    /\ ws_pc[w] = "receive"
    /\ startsLeft > 0
    /\ GwFrame
    /\ NoStatus
    /\ startsLeft' = startsLeft - 1
    /\ IF custom_sid /= NoSessionId
       THEN /\ active_connections' =
                 Put(Disconnect(active_connections, ws_sid[w]), custom_sid, w)
            /\ ws_sid' = [ws_sid EXCEPT ![w] = custom_sid]
       ELSE UNCHANGED <<active_connections, ws_sid>>
    /\ ws_lang' = [ws_lang EXCEPT ![w] = language]
    /\ ws_pc' = [ws_pc EXCEPT ![w] = "set_lang"]
    /\ UNCHANGED <<router_inbox, router_pc, router_cur, last_route, gw_tasks,
                   connectsLeft, eventsLeft>>
    /\ UNCHANGED <<session_lang, vllm_status>>

\* websocket_endpoint: which Docker control a "start" control asks for
StartAction(language) ==
    IF language \in {"en", "bilingual", "en-translate"} THEN "start" ELSE "stop"

\* asyncio.create_task(manage_vllm(action))
NewTask(action) ==
    [action |-> action, pc |-> "queued", seen |-> "none", acted |-> "none"]

\* websocket_endpoint, "start" control, after r.set returned: the language
\* is stored and the Docker control task is created.
WsStartLang(w) ==
    /\ ws_pc[w] = "set_lang"
    /\ GwFrame
    /\ NoStatus
    /\ session_lang' = Put(session_lang, ws_sid[w], ws_lang[w])
    /\ gw_tasks' = Append(gw_tasks, NewTask(StartAction(ws_lang[w])))
    /\ ws_pc' = [ws_pc EXCEPT ![w] = "receive"]
    /\ ws_lang' = [ws_lang EXCEPT ![w] = "none"]
    /\ UNCHANGED <<active_connections, ws_sid, router_inbox, router_pc,
                   router_cur, last_route, connectsLeft, startsLeft, eventsLeft>>
    /\ UNCHANGED vllm_status

\* r.publish(CHANNEL_STATUS, ...): the message reaches the three
\* subscribers of the status channel, session_monitor of worker-asr,
\* summary_monitor of worker-intelligence and the gateway's own
\* redis_subscriber.
PublishStatus(session_id, status) ==
    /\ asr_status_inbox' = Append(asr_status_inbox,
                                  [session_id |-> session_id, status |-> status])
    /\ sum_inbox' = Append(sum_inbox,
                           [session_id |-> session_id, status |-> status])
    /\ router_inbox' = Append(router_inbox, [session_id |-> session_id])

\* websocket_endpoint, "stop" control: session_ended is published. The
\* client sends nothing more on this connection afterwards; it may close it.
WsStop(w) ==
    /\ ws_pc[w] = "receive"
    /\ GwFrame
    /\ PublishStatus(ws_sid[w], "session_ended")
    /\ ws_pc' = [ws_pc EXCEPT ![w] = "stopped"]
    /\ UNCHANGED <<active_connections, ws_sid, ws_lang, router_pc, router_cur,
                   last_route, gw_tasks, connectsLeft, startsLeft, eventsLeft>>
    /\ UNCHANGED <<session_lang, vllm_status>>

\* websocket_endpoint, the finally block: the session id is removed from
\* the registry and session_disconnected is published, which the
\* subscriber receives on the status channel.
WsClose(w) ==
    /\ ws_pc[w] \in {"receive", "set_lang", "stopped"}
    /\ GwFrame
    /\ active_connections' = Disconnect(active_connections, ws_sid[w])
    /\ PublishStatus(ws_sid[w], "session_disconnected")
    /\ ws_pc' = [ws_pc EXCEPT ![w] = "closed"]
    /\ ws_lang' = [ws_lang EXCEPT ![w] = "none"]
    /\ UNCHANGED <<ws_sid, router_pc, router_cur, last_route, gw_tasks,
                   connectsLeft, startsLeft, eventsLeft>>
    /\ UNCHANGED <<session_lang, vllm_status>>

\* A worker publishes an event on one of the subscribed channels.
EventPublished(session_id) ==
    /\ eventsLeft > 0
    /\ GwFrame
    /\ NoStatus
    /\ eventsLeft' = eventsLeft - 1
    /\ router_inbox' = Append(router_inbox, [session_id |-> session_id])
    /\ UNCHANGED <<active_connections, ws_pc, ws_sid, ws_lang, router_pc,
                   router_cur, last_route, gw_tasks, connectsLeft, startsLeft>>
    /\ UNCHANGED <<session_lang, vllm_status>>

\* redis_subscriber: `if session_id and session_id in
\* manager.active_connections`
IsTargeted(session_id, conns) ==
    session_id /= NoSessionId /\ session_id \in DOMAIN conns

\* A routing that has begun: the websockets registered at that moment, the
\* one registered under the event's id ("none" without one), the
\* websockets the event was sent to and those whose send raised.
NewRoute(session_id, mode, conns) ==
    [session_id |-> session_id, mode |-> mode,
     registered |-> Registered(conns),
     target |-> Get(conns, session_id, "none"),
     delivered |-> {}, failed |-> {}, outcome |-> "pending",
     registered_end |-> {}]

\* The routing in hand with the result of the send that returned.
SendResult(route, ws, ok) ==
    IF ok THEN [route EXCEPT !.delivered = @ \cup {ws}]
    ELSE [route EXCEPT !.failed = @ \cup {ws}]

Finished(route, outcome, conns) ==
    [route EXCEPT !.outcome = outcome, !.registered_end = Registered(conns)]

\* redis_subscriber: one message, from pubsub.listen() to the first
\* `await ws.send_json` of send_json or of broadcast_json (or to the next
\* listen() when the registry is empty).
RouterReceive ==
    /\ router_pc = "listen"
    /\ router_inbox /= <<>>
    /\ GwFrame
    /\ NoStatus
    /\ router_inbox' = Tail(router_inbox)
    /\ LET session_id == Head(router_inbox).session_id
           conns == active_connections
       IN IF IsTargeted(session_id, conns)
          THEN /\ router_pc' = "send"
               /\ router_cur' = [NoRoute EXCEPT !.key = session_id,
                                                !.ws = conns[session_id]]
               /\ last_route' = NewRoute(session_id, "send", conns)
          ELSE IF DOMAIN conns = {}
          THEN /\ router_pc' = "listen"
               /\ router_cur' = NoRoute
               /\ last_route' = Finished(NewRoute(session_id, "broadcast", conns),
                                       "done", conns)
          ELSE \E k \in DOMAIN conns :
               /\ router_pc' = "broadcast"
               /\ router_cur' = [NoRoute EXCEPT !.key = k, !.ws = conns[k],
                                    !.size = Cardinality(DOMAIN conns),
                                    !.keys = DOMAIN conns, !.visited = {k}]
               /\ last_route' = NewRoute(session_id, "broadcast", conns)
    /\ UNCHANGED <<active_connections, ws_pc, ws_sid, ws_lang, gw_tasks,
                   connectsLeft, startsLeft, eventsLeft>>
    /\ UNCHANGED <<session_lang, vllm_status>>

\* ConnectionManager.send_json: the send returns or raises; a failure is
\* logged.
RouterSendReturn ==
    /\ router_pc = "send"
    /\ GwFrame
    /\ NoStatus
    /\ \E ok \in BOOLEAN :
          last_route' = Finished(SendResult(last_route, router_cur.ws, ok), "done",
                               active_connections)
    /\ router_pc' = "listen"
    /\ router_cur' = NoRoute
    /\ UNCHANGED <<active_connections, ws_pc, ws_sid, ws_lang, router_inbox,
                   gw_tasks, connectsLeft, startsLeft, eventsLeft>>
    /\ UNCHANGED <<session_lang, vllm_status>>

\* next() of the iterator over active_connections.items(): "raise" is the
\* RuntimeError of a dict whose size changed during the iteration, "end"
\* is StopIteration, otherwise the key of the next item. The order of the
\* items is not represented: any key not yet visited may come next. When
\* keys were replaced at equal size, whether the iterator raises depends
\* on the slots of the entries, so both outcomes are possible.
IterNext(conns, cur) ==
    LET rest == DOMAIN conns \ cur.visited
    IN IF Cardinality(DOMAIN conns) /= cur.size THEN {"raise"}
       ELSE (IF rest = {} THEN {"end"} ELSE rest)
            \cup (IF DOMAIN conns /= cur.keys THEN {"raise"} ELSE {})

\* ConnectionManager.broadcast_json: one send returns or raises, then the
\* loop goes on to the next item; after the last item the session ids
\* whose send raised are disconnected. The RuntimeError of the iterator is
\* not caught by broadcast_json nor by redis_subscriber, whose task ends.
RouterBroadcastReturn ==
    /\ router_pc = "broadcast"
    /\ GwFrame
    /\ NoStatus
    /\ \E ok \in BOOLEAN :
       LET route == SendResult(last_route, router_cur.ws, ok)
           disconnected == IF ok THEN router_cur.disconnected
                           ELSE router_cur.disconnected \cup {router_cur.key}
       IN \E nxt \in IterNext(active_connections, router_cur) :
          IF nxt = "raise"
          THEN /\ router_pc' = "dead"
               /\ router_cur' = NoRoute
               /\ last_route' = Finished(route, "aborted", active_connections)
               /\ UNCHANGED active_connections
          ELSE IF nxt = "end"
          THEN /\ router_pc' = "listen"
               /\ router_cur' = NoRoute
               /\ active_connections' =
                     [k \in DOMAIN active_connections \ disconnected |->
                         active_connections[k]]
               /\ last_route' = Finished(route, "done", active_connections')
          ELSE /\ router_pc' = "broadcast"
               /\ router_cur' = [router_cur EXCEPT
                                    !.key = nxt, !.ws = active_connections[nxt],
                                    !.visited = @ \cup {nxt},
                                    !.disconnected = disconnected]
               /\ last_route' = route
               /\ UNCHANGED active_connections
    /\ UNCHANGED <<ws_pc, ws_sid, ws_lang, router_inbox, gw_tasks,
                   connectsLeft, startsLeft, eventsLeft>>
    /\ UNCHANGED <<session_lang, vllm_status>>

\* manage_vllm_sync: whether the action is taken given container.status
TakesAction_Always(action, status) == TRUE

TakesAction(action, status) ==
    \/ action = "start" /\ status /= "running"
    \/ action = "stop" /\ status = "running"

\* container.status after container.start() or container.stop() returned
ActResult(action) == IF action = "start" THEN "running" ELSE "exited"

\* manage_vllm_sync in its executor thread, up to the test of
\* container.status (containers.get may raise: the task ends).
TaskCheck(i) ==
    /\ gw_tasks[i].pc = "queued"
    /\ GwFrame
    /\ NoStatus
    /\ \E docker_ok \in BOOLEAN :
          gw_tasks' = [gw_tasks EXCEPT
             ![i] = [@ EXCEPT !.seen = IF docker_ok THEN vllm_status ELSE "error",
                              !.pc = IF docker_ok /\ TakesAction(gw_tasks[i].action,
                                                                  vllm_status)
                                     THEN "checked" ELSE "done"]]
    /\ UNCHANGED <<active_connections, ws_pc, ws_sid, ws_lang, router_inbox,
                   router_pc, router_cur, last_route, connectsLeft, startsLeft,
                   eventsLeft>>
    /\ UNCHANGED <<session_lang, vllm_status>>

\* manage_vllm_sync: container.start() or container.stop() returns or
\* raises.
TaskAct(i) ==
    /\ gw_tasks[i].pc = "checked"
    /\ GwFrame
    /\ NoStatus
    /\ \E docker_ok \in BOOLEAN :
        /\ gw_tasks' = [gw_tasks EXCEPT
              ![i] = [@ EXCEPT !.pc = "done",
                               !.acted = IF docker_ok THEN gw_tasks[i].action
                                         ELSE "error"]]
        /\ vllm_status' = IF ~docker_ok THEN vllm_status
                          ELSE ActResult(gw_tasks[i].action)
    /\ UNCHANGED <<active_connections, ws_pc, ws_sid, ws_lang, router_inbox,
                   router_pc, router_cur, last_route, connectsLeft, startsLeft,
                   eventsLeft>>
    /\ UNCHANGED session_lang

\* Connections, events and their routing.
NextRoute ==
    \/ \E w \in Websockets : WsConnect(w)
    \/ \E w \in Websockets : WsClose(w)
    \/ \E session_id \in EventSids : EventPublished(session_id)
    \/ RouterReceive
    \/ RouterSendReturn
    \/ RouterBroadcastReturn

\* Connections, "start" controls and the Docker control tasks they create.
NextLease ==
    \/ \E w \in Websockets : WsConnect(w)
    \/ \E w \in Websockets, custom_sid \in CustomSids,
          language \in StartLanguages : WsStart(w, custom_sid, language)
    \/ \E w \in Websockets : WsStartLang(w)
    \/ \E i \in DOMAIN gw_tasks : TaskCheck(i)
    \/ \E i \in DOMAIN gw_tasks : TaskAct(i)

\* ------------------------------------------------------------------------
\* Properties of worker-asr
\* ------------------------------------------------------------------------

\* C1: with no clear in between, the cumulative transcription offset of a
\* session equals the sum of the durations of the buffers drained so far,
\* and the start offset applied to a drained buffer equals the sum of the
\* durations of the buffers drained before it.
C1_OffsetIsSumOfDrained ==
    /\ \A s \in Sessions : GetOffset(segment_offsets, s) = drainedSum[s]
    /\ lastDrain.time_offset = lastDrain.before

\* A second drain of a session, after an earlier drain of the same session.
C1_Witness ==
    /\ lastDrain.session_id \in DOMAIN segment_offsets
    /\ lastDrain.before > 0
    /\ lastDrain.len >= ASR_BUFFER_SAMPLES
    /\ segment_offsets[lastDrain.session_id] = lastDrain.before + lastDrain.len

\* The segment start times of the events published for session s, in
\* emission order, restricted to the events that satisfy Keep.
RECURSIVE StartsOf(_)
StartsOf(events) ==
    IF events = <<>> THEN <<>>
    ELSE [i \in 1..Len(Head(events).segments) |-> Head(events).segments[i].start]
            \o StartsOf(Tail(events))

NonDecreasing(q) == \A i, j \in 1..Len(q) : i < j => q[i] <= q[j]

EventsOfEpoch(s, e) == SelectSeq(published[s], LAMBDA ev : ev.epoch = e)

\* C2 (as stated): within one session id the segment start times of
\* successive transcription events are non-decreasing in emission order,
\* whatever end/disconnect signals were processed in between.
C2_StartsNonDecreasing ==
    \A s \in Sessions : NonDecreasing(StartsOf(published[s]))

\* C2 (amended): the start times are non-decreasing in emission order among
\* the events of one session id whose buffers were drained with no
\* end/disconnect signal processed between the drains.
C2_StartsNonDecreasingBetweenClears ==
    \A s \in Sessions : \A e \in 0..MaxStatus + 1 :
        NonDecreasing(StartsOf(EventsOfEpoch(s, e)))

\* Two events of one session drained with no clear between them.
C2_Witness ==
    \E s \in Sessions : \E e \in 0..MaxStatus + 1 :
        /\ Len(EventsOfEpoch(s, e)) >= 2
        /\ Len(StartsOf(EventsOfEpoch(s, e))) >= 4

\* ------------------------------------------------------------------------
\* Properties of the translation engine
\* ------------------------------------------------------------------------
Revisions(s) == SelectSeq(revLog[s], LAMBDA r : r.outcome = "published")

Attempts(s) == SelectSeq(revLog[s], LAMBDA r : r.outcome /= "suppressed")

\* C3 (as stated): over the whole life of a session no two revision events
\* carry the same merged-text hash, whatever was published in between.
C3_NoTwoRevisionsWithSameHash ==
    \A s \in Sessions :
        \A i, j \in 1..Len(Revisions(s)) :
            i < j => Revisions(s)[i].hash /= Revisions(s)[j].hash

\* C3 (amended): a revision is translated and published only when its hash
\* differs from the hash of the session's immediately preceding revision
\* attempt (published or failed), and it is suppressed only when it equals
\* that hash.
C3_NoRepeatOfLastAttempt ==
    \A s \in Sessions :
        /\ \A i \in 1..Len(Attempts(s)) - 1 :
              Attempts(s)[i].hash /= Attempts(s)[i + 1].hash
        /\ \A i \in 1..Len(revLog[s]) :
              revLog[s][i].outcome = "suppressed" =>
                  /\ i > 1
                  /\ revLog[s][i - 1].hash = revLog[s][i].hash

\* A session with a published revision, a later different one, and a
\* duplicate that was suppressed.
C3_Witness ==
    \E s \in Sessions :
        /\ Len(Revisions(s)) >= 2
        /\ \E i \in 1..Len(revLog[s]) : revLog[s][i].outcome = "suppressed"

\* ------------------------------------------------------------------------
\* Properties of split_transcript_into_chunks
\* ------------------------------------------------------------------------

\* C4: joining the returned chunks, in order, with newline separators
\* reproduces the transcript.
C4_JoinReproducesTranscript ==
    split_pc = "returned" => JoinLines(split_chunks) = split_text

\* A transcript of several lines that was cut into at least three chunks.
C4_Witness ==
    /\ split_pc = "returned"
    /\ Len(split_chunks) >= 3
    /\ Len(SplitLines(split_text)) > Len(split_chunks)

\* C5: every returned chunk is at most chunk_size characters long, also
\* when a single line is longer than chunk_size.
C5_ChunksWithinLimit ==
    split_pc = "returned" =>
        \A i \in 1..Len(split_chunks) : TextLen(split_chunks[i]) <= split_size

\* ------------------------------------------------------------------------
\* Properties of the summarization job
\* ------------------------------------------------------------------------
EventsOfType(type) == SelectSeq(job.events, LAMBDA e : e.type = type)

SinglePathTaken == job.prompt = "SUMMARY_SYSTEM_PROMPT"

ChunkedPathTaken == job.chunks /= <<>>

PathDecided == job.transcript_len > 0

\* C6: once generate_summary has measured the transcript, the single path
\* is taken exactly when the length is at most CHUNK_THRESHOLD (10000
\* itself included), the chunked path exactly when it is longer, and a job
\* never takes both.
C6_PathFollowsThreshold ==
    PathDecided =>
        /\ SinglePathTaken <=> job.transcript_len <= CHUNK_THRESHOLD
        /\ ChunkedPathTaken <=> job.transcript_len > CHUNK_THRESHOLD
        /\ ~(SinglePathTaken /\ ChunkedPathTaken)
        /\ SinglePathTaken => job.chunk_summaries = <<>>
        /\ job.prompt = "MERGE_SUMMARY_PROMPT" => ChunkedPathTaken

C6_Witness ==
    /\ job.finished
    /\ job.transcript_len = CHUNK_THRESHOLD
    /\ SinglePathTaken
    /\ job.calls = 1

\* C7: once worker-intelligence has received the end or disconnect status
\* of a session, the translation engine holds no segment in its window and
\* no last-revision hash for it (until a later segment of that id arrives).
C7_NoTranslationStateAfterEnd ==
    \A s \in Sessions :
        endProcessed[s] =>
            /\ Get(session_segments, s, <<>>) = <<>>
            /\ s \notin DOMAIN last_revision_hash

\* C8: when ensure_llm_ready gives up, the job makes no completion call and
\* publishes no summary_chunk event, and what it publishes is exactly one
\* summary_done, carrying the warm-up failure message.
C8_WarmupTimeoutFailsOnce ==
    job.ready = "no" =>
        /\ job.calls = 0
        /\ EventsOfType("summary_chunk") = <<>>
        /\ job.summary = WarmupFailedMsg
        /\ Len(EventsOfType("summary_done")) = (IF job.finished THEN 1 ELSE 0)
        /\ \A k \in 1..Len(job.events) : job.events[k].body = WarmupFailedMsg

C8_Witness ==
    /\ job.ready = "no"
    /\ job.finished
    /\ job.polls >= 1
    /\ Len(job.events) = 1

\* C9: when ensure_llm_ready gave up, a stop of the container has been
\* requested, and the container is not running, by the time the terminal
\* event of the job is published.
C9_LeaseReturnedAfterWarmupTimeout ==
    (job.ready = "no" /\ job.finished) =>
        /\ job.stops >= 1
        /\ job.lease_at_terminal /= "running"

\* C10: a job whose transcript log is empty, or holds only records with
\* blank text, ends with a no-transcript message, with a stop requested
\* before its terminal event, and without any completion call.
C10_EmptyOrBlankLogFailsWithoutCall ==
    (job.finished /\ (job.records_empty \/ job.transcript_blank)) =>
        /\ job.calls = 0
        /\ job.summary \in {NoRecordsMsg, BlankTranscriptMsg}
        /\ Len(EventsOfType("summary_done")) = 1
        /\ \A k \in 1..Len(job.events) : job.events[k].stops_before >= 1

\* C13: a cycle of asr_loop that drains a ready window in which the voice
\* activity gate finds no speech publishes no transcription event, appends
\* nothing to the transcript log, does not call the speech-to-text engine,
\* leaves the window empty with a sample count of 0, and has advanced the
\* session's offset by the length of the drained audio.
C13_NoSpeechDrainIsDiscarded ==
    [][\A s \in Sessions :
          (drainedSum'[s] > drainedSum[s] /\ ~lastDrain'.has_speech) =>
              /\ lastDrain'.session_id = s
              /\ lastDrain'.len >= ASR_BUFFER_SAMPLES
              /\ ~lastDrain'.transcribed
              /\ published' = published
              /\ transcript_log' = transcript_log
              /\ asr_pc' = "brpop"
              /\ result_data' = result_data
              /\ asr_buffers'[s] = <<>>
              /\ asr_sample_counts'[s] = 0
              /\ segment_offsets'[s] =
                    Get(segment_offsets, s, 0) + lastDrain'.len]_vars

C13_Witness ==
    \E s \in Sessions :
        /\ lastDrain.session_id = s
        /\ ~lastDrain.has_speech
        /\ asr_pc = "brpop"
        /\ published[s] = <<>>
        /\ Get(segment_offsets, s, 0) = lastDrain.len
        /\ Get(asr_sample_counts, s, 1) = 0

\* ------------------------------------------------------------------------
\* Properties of the diarization loop
\* ------------------------------------------------------------------------

\* C11: a get_diarization_audio call that returned less than one second of
\* audio (fewer than TARGET_SAMPLE_RATE samples, none included) is followed
\* by no call of the diarization engine and no diarization event.
C11_ShortWindowNotDiarized ==
    /\ \A k \in 1..Len(diaLog) :
          diaLog[k].audio < TARGET_SAMPLE_RATE => ~diaLog[k].called
    /\ dia_pc \in {"diarize", "publish"} =>
          dia_cur.audio >= TARGET_SAMPLE_RATE
    /\ \A s \in Sessions : \A k \in 1..Len(dia_events[s]) :
          /\ diaLog[dia_events[s][k].entry].session_id = s
          /\ diaLog[dia_events[s][k].entry].audio >= TARGET_SAMPLE_RATE

C11_Witness ==
    /\ \E k \in 1..Len(diaLog) :
          /\ ~diaLog[k].is_none
          /\ diaLog[k].audio < TARGET_SAMPLE_RATE
    /\ \E k \in 1..Len(diaLog) : diaLog[k].is_none
    /\ dia_pc = "sleep"

\* ------------------------------------------------------------------------
\* Properties of the translation engine on single events
\* ------------------------------------------------------------------------

\* The session is in mode en and the only transcription event it has had
\* is the one with the text "Hello world. This is a test.".
OnlyHelloHandled(s) ==
    /\ Get(session_lang, s, "None") = "en"
    /\ tr_clock[s] = 1
    /\ Get(session_segments, s, <<>>) =
          <<[text |-> HelloText, seg_id |-> <<s, 1>>]>>

\* C12 as stated: once the single event has been handled, exactly one draft
\* and exactly one revision have been published for the session.
C12_SingleEventOneDraftOneRevision ==
    \A s \in Sessions :
        (OnlyHelloHandled(s) /\ tr_pc = "listen" /\ drafts[s] = 1) =>
            Len(Revisions(s)) = 1

\* C12: a single transcription event of a fresh session in mode en leads to
\* at most one draft (none while the draft call is in flight or when it
\* failed) and to no revision: none is attempted, published or recorded as
\* the last revision hash.
C12_SingleEventDraftButNoRevision ==
    \A s \in Sessions :
        OnlyHelloHandled(s) =>
            /\ revLog[s] = <<>>
            /\ s \notin DOMAIN last_revision_hash
            /\ drafts[s] <= 1
            /\ (tr_pc /= "listen" /\ tr_cur.session_id = s) =>
                  (tr_pc = "draft_call" /\ drafts[s] = 0)

C12_Witness ==
    \E s \in Sessions :
        /\ OnlyHelloHandled(s)
        /\ tr_pc = "listen"
        /\ drafts[s] = 1

\* ------------------------------------------------------------------------
\* Properties of the translation engine in zh mode
\* ------------------------------------------------------------------------

\* C14: when translation_loop receives a transcription event of a session
\* whose language mode is zh, the step leaves the session windows, the
\* revision hashes, the published drafts and revisions and the LLM client
\* and container as they were, and the loop is back at listen() without a
\* completion call.
C14_ZhEventChangesNothing ==
    [][(/\ tr_pc = "listen"
        /\ tr_inbox /= <<>>
        /\ tr_inbox' = Tail(tr_inbox)
        /\ Get(session_lang, Head(tr_inbox).session_id, "None") = "zh")
       => /\ UNCHANGED <<session_segments, last_revision_hash, drafts, revLog,
                         llm_client, vllm_status>>
          /\ tr_pc' = "listen"]_vars

\* The last event received was bypassed for a zh session that has a
\* non-empty window from its time in mode en.
C14_Witness ==
    /\ tr_last.outcome = "zh"
    /\ tr_pc = "listen"
    /\ Get(session_segments, tr_last.session_id, <<>>) /= <<>>

\* ------------------------------------------------------------------------
\* Properties of the gateway's event routing
\* ------------------------------------------------------------------------

\* The websockets a routing tried to send the event to.
Attempted(route) == route.delivered \cup route.failed

\* C15: an event that was routed went to exactly the connection registered
\* under its session id when there was one, and otherwise to every
\* connection that was registered when the routing began and still is when
\* it is over.
C15_RoutedToTargetOrToAll ==
    last_route.outcome \in {"done", "aborted"} =>
        IF last_route.target /= "none"
        THEN Attempted(last_route) = {last_route.target}
        ELSE (last_route.registered \cap last_route.registered_end)
                 \subseteq Attempted(last_route)

\* C16: once an event has been routed, no connection whose send raised is
\* still registered, and every other connection that was registered when
\* the routing began and still is got its send.
C16_FailedDeliveryDeregisters ==
    last_route.outcome \in {"done", "aborted"} =>
        /\ last_route.failed \cap last_route.registered_end = {}
        /\ last_route.mode = "broadcast" =>
              (last_route.registered \cap last_route.registered_end)
                  \subseteq Attempted(last_route)

\* ------------------------------------------------------------------------
\* Properties of the Docker control of the vLLM container
\* ------------------------------------------------------------------------

\* container.status values
ContainerStatuses == {"created", "running", "exited"}

\* manage_vllm_sync run from its test to its end without a Docker error
ManageVllmSync(status, action) ==
    IF TakesAction(action, status) THEN ActResult(action) ELSE status

\* C17: a start request that finds the container running, and a stop
\* request that finds it not running, end without a start or stop call
\* and leave the container status as it is; and a request made twice in a
\* row leaves the same status as the request made once, in the gateway as
\* in worker-intelligence.
C17_RequestsAreIdempotent ==
    [][/\ \A i \in DOMAIN gw_tasks :
            (/\ gw_tasks[i].pc = "queued"
             /\ gw_tasks'[i].pc /= "queued"
             /\ gw_tasks'[i].seen /= "error"
             /\ \/ gw_tasks[i].action = "start" /\ vllm_status = "running"
                \/ gw_tasks[i].action = "stop" /\ vllm_status /= "running")
            => /\ gw_tasks'[i].pc = "done"
               /\ gw_tasks'[i].acted = "none"
               /\ vllm_status' = vllm_status
       /\ \A status \in ContainerStatuses, action \in {"start", "stop"} :
            /\ ManageVllmSync(ManageVllmSync(status, action), action)
                  = ManageVllmSync(status, action)
            /\ \A docker_ok \in BOOLEAN :
                  ManageVllm(ManageVllm(status, action, docker_ok), action,
                             docker_ok)
                     = ManageVllm(status, action, docker_ok)]_vars

\* Two start requests in a row: the first started the container, the
\* second found it running and ended without a call.
C17_Witness ==
    \E i, j \in DOMAIN gw_tasks :
        /\ gw_tasks[i].action = "start"
        /\ gw_tasks[i].seen = "exited"
        /\ gw_tasks[i].acted = "start"
        /\ gw_tasks[j].action = "start"
        /\ gw_tasks[j].seen = "running"
        /\ gw_tasks[j].pc = "done"
        /\ gw_tasks[j].acted = "none"
        /\ vllm_status = "running"

\* The requests that have tested container.status and have not yet made
\* their start or stop call.
BetweenCheckAndAct == {i \in DOMAIN gw_tasks : gw_tasks[i].pc = "checked"}

\* C20: no two requests are between their status test and their start or
\* stop call at the same time, and a request that makes its call finds the
\* container in the status it tested.
C20_RequestsDoNotInterleave ==
    /\ Cardinality(BetweenCheckAndAct) <= 1
    /\ \A i \in BetweenCheckAndAct : gw_tasks[i].seen = vllm_status

\* ------------------------------------------------------------------------
\* Properties of the lease shared by summarization and translation
\* ------------------------------------------------------------------------

\* A translation call of a session other than the job's is awaiting its
\* completion.
OtherTranslationInFlight ==
    /\ tr_pc \in {"draft_call", "revision_call"}
    /\ tr_cur.session_id /= job.session_id

\* C18: while the job warms up after a start request that went through,
\* the container is running, and once a stop request of the job went
\* through the container is not running, whatever the translation loop is
\* doing for other sessions.
C18_SummaryStartsAndStopsRegardless ==
    /\ (sum_pc = "warmup" /\ job.start_ok = "ok") => vllm_status = "running"
    /\ job.stop_ok = "ok" => vllm_status = "exited"

\* The container was running and was stopped by the job of one session
\* while the translation call of another session, in mode en, was awaiting
\* its completion, and it still is.
C18_Witness ==
    /\ job.stop_ok = "ok"
    /\ job.lease_before_stop = "running"
    /\ job.in_flight_at_stop /= "none"
    /\ job.in_flight_at_stop /= job.session_id
    /\ OtherTranslationInFlight
    /\ tr_cur.session_id = job.in_flight_at_stop
    /\ Get(session_lang, tr_cur.session_id, "None") = "en"
    /\ vllm_status = "exited"

\* C19: a job stops the running container only when no translation call of
\* another session is awaiting its completion.
C19_NoStopWhileAnotherSessionNeeds ==
    (job.stop_ok = "ok" /\ job.lease_before_stop = "running")
        => job.in_flight_at_stop \in {"none", job.session_id}

\* ------------------------------------------------------------------------
\* Properties of the session life
\* ------------------------------------------------------------------------

\* The websockets that have served session s.
ServedBy(s) == {w \in Websockets : ws_sid[w] = s}

\* C21: a session served by one connection is cleared at most once, and
\* exactly once when the connection is closed and session_monitor has
\* received every status message.
C21_ClearedExactlyOnce ==
    \A s \in Sessions :
        Cardinality(ServedBy(s)) = 1 =>
            /\ epoch[s] <= 1
            /\ ((\A w \in ServedBy(s) : ws_pc[w] = "closed")
                  /\ asr_status_inbox = <<>>) => epoch[s] = 1

\* ------------------------------------------------------------------------
\* Properties of the buffer manager after the end of a session
\* ------------------------------------------------------------------------

\* No field of the SessionBuffer has an entry for s.
NoEntries(s) ==
    /\ s \notin DOMAIN asr_buffers
    /\ s \notin DOMAIN diarization_buffers
    /\ s \notin DOMAIN asr_sample_counts
    /\ s \notin DOMAIN diarization_sample_counts
    /\ s \notin DOMAIN segment_offsets
    /\ s \notin DOMAIN diarization_offsets

\* An end or disconnect signal of s has been handled, none is pending, and
\* no audio chunk of s is queued or still to come.
Settled(s) ==
    /\ epoch[s] >= 1
    /\ \A i \in DOMAIN asr_status_inbox : asr_status_inbox[i].session_id /= s
    /\ \A i \in DOMAIN audio_queue : audio_queue[i].session_id /= s
    /\ pushesLeft = 0

\* C22: once the end signal of a session has been handled and its audio
\* has been consumed, eventually the buffer manager holds no entry for the
\* session and never does again.
C22_PurgedForGood ==
    \A s \in Sessions : [](Settled(s) => <>[]NoEntries(s))

\* C23: a failure raised while a session is summarized terminates neither
\* summary_monitor nor translation_loop: both stay able to take their next
\* message.
C23_SummaryFailureStaysInside ==
    /\ sum_pc /= "dead"
    /\ tr_pc /= "cancelled"

\* C24: whenever asr_loop is between two cycles (at its BRPOP), the
\* transcript log of every session is the sequence of the transcription
\* events published for the session, in the same order.
C24_LogEqualsPublished ==
    asr_pc = "brpop" =>
        \A s \in Sessions : transcript_log[s] = published[s]

\* C25: a cycle whose models.transcribe call failed publishes no
\* transcription event and logs no record, leaves the session's ASR window
\* drained and its offset advanced by the drained length (the audio cannot
\* reach the engine again), and ends at the BRPOP of the next cycle.
C25_FailedCallDropsTheBuffer ==
    [][\A s \in Sessions :
          (drainedSum'[s] > drainedSum[s] /\ lastDrain'.failed) =>
              /\ lastDrain'.session_id = s
              /\ lastDrain'.transcribed
              /\ published' = published
              /\ transcript_log' = transcript_log
              /\ asr_pc' = "brpop"
              /\ result_data' = result_data
              /\ Get(asr_buffers', s, <<>>) = <<>>
              /\ Get(asr_sample_counts', s, 1) = 0
              /\ Get(segment_offsets', s, 0) =
                    Get(segment_offsets, s, 0) + lastDrain'.len]_vars

\* The buffer after a failed one is transcribed and on its way to the
\* channel, with times that start where the failed buffer ended.
C25_Witness ==
    /\ lastDrain.prev_failed
    /\ ~lastDrain.failed
    /\ lastDrain.transcribed
    /\ lastDrain.before >= ASR_BUFFER_SAMPLES
    /\ asr_pc = "publish"
    /\ result_data.session_id = lastDrain.session_id
    /\ result_data.segments[1].start = lastDrain.before

\* ------------------------------------------------------------------------
\* Properties of the segment window and of the translation direction
\* ------------------------------------------------------------------------

\* The step in which translation_loop publishes a revision for session s.
RevisionPublished(s) == Len(Revisions(s)') = Len(Revisions(s)) + 1

\* C26: a revision is published only for a window of at least two entries
\* whose merged text has between REVISION_MIN_CHARS and REVISION_MAX_CHARS
\* characters and whose last entry, the segment that triggered it, ends with
\* terminal punctuation; once it is published the window is empty and the
\* stored hash is the hash of that merged text.
C26_RevisionOnlyForCompleteSentence ==
    [][\A s \in Sessions :
          RevisionPublished(s) =>
              LET recent == Get(session_segments, s, <<>>)
                  merged_text == MergedText(recent)
              IN /\ Len(recent) >= 2
                 /\ TextLen(merged_text) >= REVISION_MIN_CHARS
                 /\ TextLen(merged_text) <= REVISION_MAX_CHARS
                 /\ recent[Len(recent)].text = tr_cur.text
                 /\ HasSentenceEnd(tr_cur.text)
                 /\ Revisions(s)'[Len(Revisions(s)')].hash = Md5Hex(merged_text)
                 /\ Get(session_segments', s, <<"kept">>) = <<>>
                 /\ Get(last_revision_hash', s, "None") = Md5Hex(merged_text)]_vars

\* A revision of a merged text of exactly REVISION_MAX_CHARS characters has
\* been published and the loop is back at listen().
C26_Witness ==
    /\ Len(Revisions("S1")) = 1
    /\ TextLen(Revisions("S1")[1].hash.md5) = REVISION_MAX_CHARS
    /\ session_segments["S1"] = <<>>
    /\ tr_pc = "listen"

\* The step in which translation_loop ends the handling of a segment of
\* session s that it had appended to the window, without a revision call.
SegmentDone(s) ==
    /\ tr_pc = "draft_call"
    /\ tr_cur.session_id = s
    /\ tr_pc' = "listen"

\* C27: when the merged text of the window, the new segment included, is
\* longer than REVISION_MAX_CHARS, the window holds its last entry only by
\* the time the loop is back at listen(), whether the draft translation
\* went through or failed.
C27_OverlongWindowCollapsed ==
    [][\A s \in Sessions :
          LET recent == Get(session_segments, s, <<>>)
          IN (SegmentDone(s) /\ TextLen(MergedText(recent)) > REVISION_MAX_CHARS)
                => Get(session_segments', s, <<>>) = <<recent[Len(recent)]>>]_vars

\* C28: whenever translation_loop is suspended (at listen() or at one of
\* the two completion calls), the window of every session has at most
\* SEGMENT_MERGE_WINDOW entries; they are the segments appended last for the
\* session, in arrival order without a gap, and while the segment in hand
\* awaits its translation it is the last of them.
C28_WindowHoldsTheMostRecent ==
    \A s \in DOMAIN session_segments :
        LET recent == session_segments[s]
        IN /\ Len(recent) <= SEGMENT_MERGE_WINDOW
           /\ \A i \in 1..Len(recent) : recent[i].seg_id[1] = s
           /\ \A i \in 1..(Len(recent) - 1) :
                 recent[i + 1].seg_id[2] = recent[i].seg_id[2] + 1
           /\ recent /= <<>> => recent[Len(recent)].seg_id[2] = tr_clock[s]
           /\ (tr_pc \in {"draft_call", "revision_call"} /\ tr_cur.session_id = s)
                 => /\ recent /= <<>>
                    /\ recent[Len(recent)].seg_id = <<s, tr_clock[s]>>
                    /\ recent[Len(recent)].text = tr_cur.text

\* A sixth segment has pushed the oldest one out of a full window.
C28_Witness ==
    \E s \in DOMAIN session_segments :
        /\ Len(session_segments[s]) = SEGMENT_MERGE_WINDOW
        /\ session_segments[s][1].seg_id[2] = 2
        /\ tr_pc = "draft_call"

\* C29: whenever translation_loop has finished an event and is back at
\* listen(), the merged text of every session's window has at most
\* REVISION_MAX_CHARS characters.
C29_MergedLengthBounded ==
    tr_pc = "listen" =>
        \A s \in DOMAIN session_segments :
            TextLen(MergedText(session_segments[s])) <= REVISION_MAX_CHARS

\* The direction the script of a text calls for.
DirectionOfScript(text) ==
    IF HasCjk(text)
    THEN [source_lang |-> "zh", target_lang |-> "en"]
    ELSE [source_lang |-> "en", target_lang |-> "zh"]

\* C30: every text in translation, draft or revision, is translated from
\* zh to en when it contains a CJK code point and from en to zh when it
\* does not, whatever the language tag of the event.
C30_DirectionFollowsScript ==
    /\ tr_pc = "draft_call" => tr_cur.direction = DirectionOfScript(tr_cur.text)
    /\ tr_pc = "revision_call" =>
          tr_cur.direction = DirectionOfScript(tr_cur.merged_text)

\* ------------------------------------------------------------------------
\* Properties of the summarization job
\* ------------------------------------------------------------------------

\* The phases a summarization job may pass to from each phase.
PhaseAfter(pc) ==
    CASE pc = "listen" -> {"grace"}
      [] pc = "grace" -> {"warmup"}
      [] pc = "warmup" -> {"warmup", "collect", "terminal"}
      [] pc = "collect" -> {"stream_call", "notify", "terminal"}
      [] pc = "notify" -> {"map_progress"}
      [] pc = "map_progress" -> {"map_call"}
      [] pc = "map_call" -> {"map_progress", "merge_notify"}
      [] pc = "merge_notify" -> {"stream_call"}
      [] pc = "stream_call" -> {"terminal", "listen"}
      [] pc = "terminal" -> {"listen"}
      [] OTHER -> {}

\* C31: a summarization job starts only when summary_monitor takes a
\* session_ended message, for the session of that message, and goes through
\* grace wait, warm-up, collect, single or chunked, stream and terminal in
\* this order; the transcript is read only after ensure_llm_ready returned
\* True, and no completion call was made before the read.
C31_JobPhasesInOrder ==
    [][/\ sum_pc' /= sum_pc => sum_pc' \in PhaseAfter(sum_pc)
       /\ (sum_pc = "listen" /\ sum_pc' /= "listen") =>
             /\ sum_inbox /= <<>>
             /\ Head(sum_inbox).status = "session_ended"
             /\ job'.session_id = Head(sum_inbox).session_id
             /\ job'.calls = 0
             /\ job'.ready = "unknown"
       /\ (sum_pc = "listen" /\ sum_pc' = "listen") => job' = job
       /\ sum_pc' = "collect" => (job'.ready = "yes" /\ job'.calls = 0)
       /\ job'.calls > job.calls => (sum_pc /= "listen" /\ job.ready = "yes")
      ]_vars

\* A job in its stream phase that came through the chunked path.
C31_Witness ==
    /\ sum_pc = "stream_call"
    /\ job.ready = "yes"
    /\ job.prompt = "MERGE_SUMMARY_PROMPT"
    /\ job.calls = Len(job.chunks) + 1
    /\ job.polls > 0

\* The chunk numbers of the progress events of the job, in the order of
\* their publication.
ProgressIndexes ==
    LET progress == SelectSeq(job.events,
                              LAMBDA e : /\ e.type = "summary_chunk"
                                         /\ e.body.body = "progress")
    IN [k \in 1..Len(progress) |-> progress[k].index]

\* C32: on the chunked path the Map calls are made one per chunk in chunk
\* order, the progress event of a chunk is published before its call, and
\* the Reduce call is made once, after the last Map call returned, over the
\* summaries of all chunks in chunk order.
C32_MapThenReduce ==
    LET M == Len(job.chunks)
        returned == Len(job.chunk_summaries)
        issued == returned + (IF sum_pc = "map_call" THEN 1 ELSE 0)
        reduced == IF job.prompt = "MERGE_SUMMARY_PROMPT" THEN 1 ELSE 0
    IN M > 0 =>
        /\ returned <= M
        /\ \A k \in 1..returned : job.chunk_summaries[k].index = k
        /\ ProgressIndexes = [k \in 1..issued |-> k]
        /\ job.calls = issued + reduced
        /\ sum_pc = "map_call" => job.i = issued
        /\ sum_pc = "merge_notify" => (returned = M /\ reduced = 0)
        /\ reduced = 1 =>
              /\ returned = M
              /\ sum_pc \in {"stream_call", "terminal", "listen"}

\* The Reduce call of a job of at least two chunks is in flight.
C32_Witness ==
    /\ Len(job.chunks) >= 2
    /\ sum_pc = "stream_call"
    /\ job.prompt = "MERGE_SUMMARY_PROMPT"
    /\ Len(job.chunk_summaries) = Len(job.chunks)

\* C33: while the streamed completion is consumed, the buffer handed to the
\* next delta never holds a newline nor FLUSH_CHARS characters or more (it
\* was published as soon as it did), full_summary is the concatenation of
\* the contents received, in order, and so is what was published plus the
\* buffer; when the stream has ended, the chunks published and the text of
\* summary_done are both the concatenation of all the contents.
C33_StreamLosesNothing ==
    job.stream_state \in {"open", "done"} =>
        /\ ~HasNewline(job.chunk_buffer)
        /\ TextLen(job.chunk_buffer) < FLUSH_CHARS
        /\ Canon(job.full_summary) = Canon(Flatten(job.tokens))
        /\ Canon(Flatten(job.flushed) \o job.chunk_buffer)
              = Canon(job.full_summary)
        /\ \A k \in 1..Len(job.flushed) : job.flushed[k] /= <<>>
        /\ \A k \in 1..(Len(job.flushed) - 1) : ShouldFlush(job.flushed[k])
        /\ job.stream_state = "done" =>
              /\ job.chunk_buffer = <<>>
              /\ job.stream = <<>>
              /\ Len(job.tokens) <= MaxTokens
              /\ job.events[Len(job.events)].type = "summary_done"
              /\ Len(SelectSeq(job.events, LAMBDA e : e.type = "summary_chunk"))
                    = Len(job.flushed)

\* A stream of three deltas has ended: the first two made 20 characters
\* and were published together, the newline of the third brought out the
\* rest in one chunk.
C33_Witness ==
    /\ job.stream_state = "done"
    /\ job.tokens = <<<<Run("x", 7)>>, <<Run("y", 13)>>,
                      <<Run("z", 3), NL, Run("w", 2)>>>>
    /\ Len(job.flushed) = 2
    /\ TextLen(job.flushed[1]) = FLUSH_CHARS
    /\ sum_pc = "listen"

\* The summary_done events of the job.
DoneEvents == SelectSeq(job.events, LAMBDA e : e.type = "summary_done")

\* C34: once a completion call of the job has failed, a Map call included,
\* no further completion call is made for the job and the job ends with one
\* summary_done that carries a failure message.
C34_FailedCallEndsJob ==
    /\ \A k \in 1..Len(job.chunk_summaries) :
          ~job.chunk_summaries[k].ok =>
              /\ job.calls = k
              /\ sum_pc \in {"terminal", "listen"}
              /\ job.finished =>
                    /\ Len(DoneEvents) = 1
                    /\ StartsWithErrorMarker(DoneEvents[1].body)
    /\ (job.summary = SummaryFailedMsg /\ job.finished) =>
          /\ Len(DoneEvents) = 1
          /\ DoneEvents[1].body = SummaryFailedMsg

\* C35: whenever summary_monitor has taken the session_ended message of a
\* session, the job of that session ends with its summary_done published,
\* the full summary or a failure message.
C35_EveryEndGetsItsSummary ==
    \A s \in Sessions :
        [](( /\ job.session_id = s
             /\ ~job.finished )
           => <>( /\ job.session_id = s
                  /\ job.finished
                  /\ job.events /= <<>>
                  /\ job.events[Len(job.events)].type = "summary_done" ))

\* C36: when the job of a session has ended, exactly one summary_done
\* event has been published for it, whatever the text of the summary.
C36_OneSummaryDonePerEnd ==
    (job.session_id /= "none" /\ job.finished) => Len(DoneEvents) = 1

\* C37: whenever translation_loop is back at listen(), the hash stored for
\* a session is the hash of the revision published last for it (none is
\* stored while none was published), and every merged text suppressed as a
\* duplicate has the hash of a revision that was published.
C37_StoredHashIsOfLastPublished ==
    tr_pc = "listen" =>
        \A s \in Sessions :
            /\ s \in DOMAIN last_revision_hash =>
                  /\ Revisions(s) /= <<>>
                  /\ last_revision_hash[s] = Revisions(s)[Len(Revisions(s))].hash
            /\ \A i \in 1..Len(revLog[s]) :
                  revLog[s][i].outcome = "suppressed" =>
                      \E j \in 1..(i - 1) :
                          /\ revLog[s][j].outcome = "published"
                          /\ revLog[s][j].hash = revLog[s][i].hash

\* C38: every seg_id carried by a published revision belongs to the
\* session of the revision and is the seg_id of a draft published before,
\* the draft of the segment that triggered the revision included.
C38_RevisedSegmentsWereDrafted ==
    \A s \in Sessions : \A k \in 1..Len(Revisions(s)) :
        LET seg_ids == Revisions(s)[k].seg_ids
        IN /\ seg_ids /= <<>>
           /\ \A i \in 1..Len(seg_ids) :
                 /\ seg_ids[i][1] = s
                 /\ seg_ids[i] \in draftIds

\* ------------------------------------------------------------------------
\* Properties of the two windows of SessionBuffer
\* ------------------------------------------------------------------------

\* C39: whenever the tasks of worker-asr are suspended, the transcription
\* window of every session holds fewer than ASR_BUFFER_SAMPLES samples, its
\* sample count is the total length of the chunks it holds, and the buffer
\* and the count exist for the same sessions.
C39_AsrWindowBelowThreshold ==
    /\ DOMAIN asr_buffers = DOMAIN asr_sample_counts
    /\ \A s \in DOMAIN asr_buffers :
          /\ asr_sample_counts[s] < ASR_BUFFER_SAMPLES
          /\ asr_sample_counts[s] = SumSeq(asr_buffers[s])

\* Two chunks wait in the transcription window of a session whose
\* diarization window was drained in between.
C39_Witness ==
    \E s \in DOMAIN asr_buffers :
        /\ Len(asr_buffers[s]) = 2
        /\ asr_sample_counts[s] > 0
        /\ Len(Get(diarization_buffers, s, <<>>)) = 1
        /\ Get(diarization_offsets, s, 0) > 0

\* The transcription fields SessionBuffer holds for session s.
AsrFieldsOf(s) ==
    <<s \in DOMAIN asr_buffers, Get(asr_buffers, s, <<>>),
      s \in DOMAIN asr_sample_counts, Get(asr_sample_counts, s, 0),
      s \in DOMAIN segment_offsets, Get(segment_offsets, s, 0)>>

\* The diarization fields SessionBuffer holds for session s.
DiaFieldsOf(s) ==
    <<s \in DOMAIN diarization_buffers, Get(diarization_buffers, s, <<>>),
      s \in DOMAIN diarization_sample_counts,
      Get(diarization_sample_counts, s, 0),
      s \in DOMAIN diarization_offsets, Get(diarization_offsets, s, 0)>>

\* C40: the two windows drain independently. A step of asr_loop that
\* drains the transcription window of a session leaves the diarization
\* buffer and sample count as add_audio left them and the diarization
\* offsets as they were, and changes no transcription field of another
\* session; a step of diarization_loop that drains diarization windows
\* changes no transcription buffer, sample count or offset, and changes the
\* diarization fields of the sessions it drained only.
C40_WindowsDrainIndependently ==
    [][/\ \A s \in Sessions :
            drainedSum'[s] /= drainedSum[s] =>
               LET added == AddAudio(asr_buffers, asr_sample_counts,
                                     diarization_buffers,
                                     diarization_sample_counts,
                                     s, Head(audio_queue).audio)
               IN /\ diarization_buffers' = added.diarization_buffers
                  /\ diarization_sample_counts'
                        = added.diarization_sample_counts
                  /\ diarization_offsets' = diarization_offsets
                  /\ \A t \in Sessions \ {s} :
                        /\ AsrFieldsOf(t)' = AsrFieldsOf(t)
                        /\ DiaFieldsOf(t)' = DiaFieldsOf(t)
       /\ diaLog' /= diaLog =>
            /\ asr_buffers' = asr_buffers
            /\ asr_sample_counts' = asr_sample_counts
            /\ segment_offsets' = segment_offsets
            /\ \A t \in Sessions :
                  DiaFieldsOf(t)' /= DiaFieldsOf(t) =>
                     \E i \in (Len(diaLog) + 1)..Len(diaLog') :
                        diaLog'[i].session_id = t]_vars

\* Both windows of one session were drained while the other session had
\* audio waiting in both of its windows.
C40_Witness ==
    \E s, t \in Sessions :
        /\ s /= t
        /\ drainedSum[s] > 0
        /\ Get(diarization_offsets, s, 0) > 0
        /\ Get(asr_sample_counts, t, 0) > 0
        /\ Get(diarization_sample_counts, t, 0) > 0

\* ------------------------------------------------------------------------
\* Specifications
\* ------------------------------------------------------------------------
InitSpecAsr ==
    InitAsr /\ SplitIdle /\ LlmIdle /\ TrIdle /\ SumIdle /\ GwIdle

SpecAsr == InitSpecAsr /\ [][NextAsr]_vars

InitSpecSplit ==
    InitSplit /\ AsrIdle /\ LlmIdle /\ TrIdle /\ SumIdle /\ GwIdle

NextSplit == SplitCall

SpecSplit == InitSpecSplit /\ [][NextSplit]_vars

InitSpecTr ==
    InitTr /\ LlmIdle /\ AsrIdle /\ SplitIdle /\ SumIdle /\ GwIdle

SpecTr == InitSpecTr /\ [][NextTr]_vars

\* The summarization of sessions whose transcript logs were written before.
InitSpecSum ==
    /\ InitSum
    /\ LlmIdle
    /\ TrIdle
    /\ SplitIdle
    /\ AsrIdleButLog
    /\ GwIdle
    /\ transcript_log \in [Sessions -> SumLogs]

SpecSum == InitSpecSum /\ [][NextSum]_vars

\* worker-intelligence as a whole: translation_loop and summary_monitor
\* share the completion client and the container.
IntLog ==
    [s \in Sessions |->
       IF s = "S1"
       THEN <<Record(<<Run("w", 4000)>>), Record(<<Run("w", 4000)>>),
              Record(<<Run("w", 4000)>>)>>
       ELSE <<Record(<<Run("a", 14), Run(".", 1)>>)>>]

InitSpecInt ==
    /\ InitSum
    /\ LlmIdle
    /\ InitTrWith([s \in Sessions |-> IF s = "S1" THEN "en" ELSE "zh"],
                  MaxIntTranscriptions)
    /\ SplitIdle
    /\ AsrIdleButLog
    /\ GwIdle
    /\ transcript_log = IntLog

NextInt == NextTr \/ NextSum

SpecInt == InitSpecInt /\ [][NextInt]_vars

InitSpecDia ==
    InitDia /\ SplitIdle /\ LlmIdle /\ TrIdle /\ SumIdle /\ GwIdle

SpecDia == InitSpecDia /\ [][NextDia]_vars

InitSpecScenario ==
    InitScenario /\ LlmIdle /\ AsrIdle /\ SplitIdle /\ SumIdle /\ GwIdle

SpecScenario == InitSpecScenario /\ [][NextScenario]_vars

InitSpecRoute ==
    /\ GwIdleWith(MaxConnects, 0, MaxEvents)
    /\ AsrIdle /\ SplitIdle /\ LlmIdle /\ TrIdle /\ SumIdle

SpecRoute == InitSpecRoute /\ [][NextRoute]_vars

InitSpecLease ==
    /\ GwIdleWith(MaxConnects, MaxStarts, 0)
    /\ AsrIdle /\ SplitIdle /\ TrIdle /\ SumIdle
    /\ llm_client = FALSE
    /\ vllm_status \in {"exited", "running"}

SpecLease == InitSpecLease /\ [][NextLease]_vars

\* The translation loop while a client changes the language mode of a
\* session with a "start" control.
InitSpecZh ==
    /\ InitTrWith([s \in Sessions |-> "en"], MaxZhTranscriptions)
    /\ GwIdleWith(MaxLangSets, MaxLangSets, 0)
    /\ LlmIdle /\ AsrIdle /\ SplitIdle /\ SumIdle

NextZh ==
    \/ \E input \in TrInputs : TranscriptionPublished("S1", input)
    \/ TrReceive
    \/ TrDraftReturn
    \/ TrRevisionReturn
    \/ NextLease

SpecZh == InitSpecZh /\ [][NextZh]_vars

\* Session S1 in mode en being translated while session S2 is ended and
\* summarized.
InitSpecShare ==
    /\ InitSum
    /\ LlmIdle
    /\ InitTrWith([s \in Sessions |-> IF s = "S1" THEN "en" ELSE "zh"],
                  MaxShareTranscriptions)
    /\ SplitIdle
    /\ AsrIdleButLog
    /\ GwIdle
    /\ transcript_log = IntLog

NextShare ==
    \/ \E input \in TrInputs : TranscriptionPublished("S1", input)
    \/ TrReceive
    \/ TrDraftReturn
    \/ TrRevisionReturn
    \/ StatusPublished("S2", "session_ended")
    \/ SumReceive
    \/ SumWarmupStart
    \/ SumPollOk
    \/ SumPollFail
    \/ SumCollect
    \/ SumStream
    \/ SumTerminal

SpecShare == InitSpecShare /\ [][NextShare]_vars

\* Clients that connect, start, stop and close, and session_monitor.
InitSpecEnd ==
    /\ GwIdleWith(MaxConnects, MaxStarts, 0)
    /\ AsrIdle /\ SplitIdle /\ LlmIdle /\ TrIdle /\ SumIdle

NextEnd ==
    \/ NextLease
    \/ \E w \in Websockets : WsStop(w)
    \/ \E w \in Websockets : WsClose(w)
    \/ SessionMonitor

SpecEnd == InitSpecEnd /\ [][NextEnd]_vars

\* worker-asr with its three tasks, each of which goes on running.
InitSpecLive ==
    /\ InitAsrWith(MaxLivePush, MaxStatus, MaxTicks)
    /\ SplitIdle /\ LlmIdle /\ TrIdle /\ SumIdle /\ GwIdle

SpecLive ==
    /\ InitSpecLive
    /\ [][NextDia]_vars
    /\ WF_vars(AsrCycle)
    /\ WF_vars(AsrPublish)
    /\ WF_vars(AsrRpush)
    /\ WF_vars(SessionMonitor)
    /\ WF_vars(DiaTick)
    /\ WF_vars(DiaDiarizeReturn)
    /\ WF_vars(DiaPublish)

\* worker-intelligence whose Redis calls may raise: session S1 is being
\* translated while sessions are ended and summarized.
InitSpecCrash ==
    /\ InitSum
    /\ LlmIdle
    /\ InitTrWith([s \in Sessions |-> "en"], MaxCrashTranscriptions)
    /\ SplitIdle
    /\ AsrIdleButLog
    /\ GwIdle
    /\ transcript_log = IntLog

NextCrash ==
    \/ \E input \in TrInputs : TranscriptionPublished("S1", input)
    \/ TrReceive
    \/ TrDraftReturn
    \/ TrRevisionReturn
    \/ \E sid \in Sessions : StatusPublished(sid, "session_ended")
    \/ SumReceive
    \/ SumWarmupStart
    \/ SumPollOk
    \/ SumPollFail
    \/ SumCollect
    \/ SumNotify
    \/ SumMapProgress
    \/ SumMapReturn
    \/ SumMergeNotify
    \/ SumStream
    \/ SumTerminal
    \/ SumRedisRaises

SpecCrash == InitSpecCrash /\ [][NextCrash]_vars

\* worker-asr whose Redis calls may raise.
InitSpecLog ==
    InitAsr /\ SplitIdle /\ LlmIdle /\ TrIdle /\ SumIdle /\ GwIdle

NextLog == NextAsr \/ AsrPublishRaises \/ AsrRpushRaises

SpecLog == InitSpecLog /\ [][NextLog]_vars

\* The translation loop on the events of one session whose merged texts
\* reach both limits of the revision.
InitSpecWin ==
    /\ InitTrWith([s \in Sessions |-> "en"], MaxWinTranscriptions)
    /\ LlmIdle /\ AsrIdle /\ SplitIdle /\ SumIdle /\ GwIdle

NextWin ==
    \/ \E input \in WinInputs : TranscriptionPublished("S1", input)
    \/ TrReceive
    \/ TrDraftReturn
    \/ TrRevisionReturn

SpecWin == InitSpecWin /\ [][NextWin]_vars

\* The translation loop on events of one session with every combination of
\* script and language tag.
InitSpecDir ==
    /\ InitTrWith([s \in Sessions |-> "en"], MaxDirTranscriptions)
    /\ LlmIdle /\ AsrIdle /\ SplitIdle /\ SumIdle /\ GwIdle

NextDir ==
    \/ \E input \in DirInputs : TranscriptionPublished("S1", input)
    \/ TrReceive
    \/ TrDraftReturn
    \/ TrRevisionReturn

SpecDir == InitSpecDir /\ [][NextDir]_vars

\* The summarization of sessions with a short transcript, the streamed
\* completion taken delta by delta.
ShortLog == [s \in Sessions |-> <<Record(<<Run("a", 14), Run(".", 1)>>)>>]

InitSpecStream ==
    /\ InitSum
    /\ LlmIdle
    /\ TrIdle
    /\ SplitIdle
    /\ AsrIdleButLog
    /\ GwIdle
    /\ transcript_log = ShortLog

NextStream ==
    \/ StatusPublished("S1", "session_ended")
    \/ SumReceive
    \/ SumWarmupStart
    \/ SumPollOk
    \/ SumPollFail
    \/ SumCollect
    \/ SumStreamOpen
    \/ SumStreamDelta
    \/ SumStreamEnd
    \/ SumStreamRaises
    \/ SumTerminal

SpecStream == InitSpecStream /\ [][NextStream]_vars

\* summary_monitor on its own, every call of which returns or raises in
\* the end; its Redis calls may raise.
NextDone ==
    \/ \E sid \in Sessions : StatusPublished(sid, "session_ended")
    \/ SumReceive
    \/ SumWarmupStart
    \/ SumPollOk
    \/ SumPollFail
    \/ SumCollect
    \/ SumNotify
    \/ SumMapProgress
    \/ SumMapReturn
    \/ SumMergeNotify
    \/ SumStream
    \/ SumTerminal
    \/ SumRedisRaises

\* The positions at which summary_monitor awaits an external call (the
\* sleep, Docker, the completion service, Redis).
AwaitedCalls == {"grace", "warmup", "collect", "notify", "map_progress",
                 "map_call", "merge_notify", "stream_call", "terminal"}

\* A waiting message is taken by pubsub.listen(), and no external call is
\* awaited for ever: it returns or it raises.
SpecDone ==
    /\ InitSpecShare
    /\ [][NextDone]_vars
    /\ WF_vars(SumReceive)
    /\ \A pc \in AwaitedCalls : []<>(sum_pc /= pc)

\* worker-asr with its three tasks while two chunks arrive, one diarization
\* tick passes and a session ends.
InitSpecPair ==
    /\ InitAsrWith(MaxPairPush, MaxStatus, MaxPairTicks)
    /\ SplitIdle /\ LlmIdle /\ TrIdle /\ SumIdle /\ GwIdle

NextPair ==
    \/ \E audio \in DiaChunkSizes : GatewayPushAudio("S1", audio)
    \/ GatewayStatus("S1", "session_ended")
    \/ AsrCycle
    \/ AsrPublish
    \/ AsrRpush
    \/ SessionMonitor
    \/ DiaTick
    \/ DiaDiarizeReturn
    \/ DiaPublish

SpecPair == InitSpecPair /\ [][NextPair]_vars

\* worker-asr with asr_loop and diarization_loop while chunks of two
\* sessions arrive and one diarization tick passes.
InitSpecTwo ==
    /\ InitAsrWith(MaxPairPush, 0, MaxPairTicks)
    /\ SplitIdle /\ LlmIdle /\ TrIdle /\ SumIdle /\ GwIdle

NextTwo ==
    \/ \E sid \in Sessions, audio \in DiaChunkSizes :
          GatewayPushAudio(sid, audio)
    \/ AsrCycle
    \/ AsrPublish
    \/ AsrRpush
    \/ DiaTick
    \/ DiaDiarizeReturn
    \/ DiaPublish

SpecTwo == InitSpecTwo /\ [][NextTwo]_vars
====
